---- MODULE Spec2Model ----
(***************************************************************************)
(* Model of the log-structured key-value engine (src/src/kv_store.rs) and  *)
(* of the shared-queue worker pool (src/src/thread_pool/shared_queue.rs).  *)
(*                                                                         *)
(* A segment file is a sequence of frames; byte offsets and frame sizes    *)
(* are computed from the BSON encoding of a Record.  Segment files are     *)
(* named by their numeric prefix (n stands for "<n>.log").                 *)
(***************************************************************************)
EXTENDS Integers, Sequences, FiniteSets, TLC

\* ------------------------------------------------------------------------
\* Bounds of the model
\* ------------------------------------------------------------------------
MaxOps == 6          \* calls (set / remove / reopen) of a behaviour that sets the small value
MaxSmall == 2        \* sets of the small value made in one behaviour
MaxDeepOps == 8      \* calls of a behaviour that sets only the big value
MaxCrashOps == 5     \* calls of a behaviour in which an append was torn by a crash
MaxConcOps == 3      \* calls made by the concurrent clients
PoolSize == 1        \* threads given to SharedQueueThreadPool::new
MaxJobs == 2        \* jobs spawned in one behaviour
KeyLen == 1          \* byte length of the keys in Keys
SmallLen == 1        \* byte length of the small value

Keys == {"a", "b"}
SmallVal == "s"
BigVal == "L"
Values == {SmallVal, BigVal}
NoVal == "-"
Threads == {1, 2}    \* clones of the KvStore handle, one per client thread

\* ------------------------------------------------------------------------
\* Program constants
\* ------------------------------------------------------------------------
COMPACT_AFTER_BYTE_SIZE == 2048
MAX_FILE_SIZE == 20480

\* byte length of the big value: one such record fills a segment
BigLen == MAX_FILE_SIZE

VARIABLES
    \* --- the data directory
    files,                 \* segment number -> sequence of frames
    mtime_order,           \* segment numbers, least recently modified first
    \* --- SharedKvStore
    log_index,             \* key -> <<path, offset, size>>
    log_file_readers,      \* set of paths that have a reader
    active_log,            \* [path, unlinked, olen]
    log_file_paths,        \* ordered list of segment paths
    log_file_counter,
    bytes_for_compaction,
    poisoned,              \* the RwLock is poisoned
    \* --- the last call and its result, and the history
    ret,                   \* [op, key, val, res]
    model,                 \* key -> value the calls made so far should give
    ops,                   \* number of calls made
    smalls,                \* number of sets of the small value made
    \* --- concurrent clients of one engine
    lock,                  \* holder of the RwLock write guard, 0 if free
    thr,                   \* thread -> [pc, op, key, val, loc, res, expect]
    \* --- SharedQueueThreadPool
    shared_injector,       \* the global queue: job ids, oldest first
    chan,                  \* channel -> messages in flight, oldest first
    wk,                    \* worker thread -> [pc, rx, job, local, stealers, senders]
    nthreads,              \* worker threads started so far
    jobs,                  \* job id -> "ok" or "panic" (what the closure does)
    runs,                  \* job id -> number of times it was invoked
    fin,                   \* jobs whose invocation has ended
    handed,                \* jobs moved from a panicking worker to its replacement
    alive,                 \* the pool has not been dropped
    \* --- KvsServer and its clients
    srv,                   \* the acceptor thread: [pc, term, stops]
    conn,                  \* connection -> [st, req, out, body, reply, eops, expect, res]
    smodel,                \* key -> value the replies made so far promise
    \* --- the server process and the sled adapter
    engine_file,           \* content of the file `engine` of the data directory
    boot,                  \* the last start of the server process: [opt, res, opened, n]
    sled_mem,              \* sled: key -> value, as the open database answers
    sled_disk,             \* sled: key -> value, as far as flushed to disk
    sled_acked             \* key -> what the calls that returned Ok left for it

kvvars == <<files, mtime_order, log_index, log_file_readers, active_log,
            log_file_paths, log_file_counter, bytes_for_compaction, poisoned>>
histvars == <<ret, model, ops, smalls>>
concvars == <<lock, thr>>
poolvars == <<shared_injector, chan, wk, nthreads, jobs, runs, fin, handed, alive>>
netvars == <<srv, conn, smodel>>
bootvars == <<engine_file, boot, sled_mem, sled_disk, sled_acked>>
extvars == <<netvars, bootvars>>
vars == <<files, mtime_order, log_index, log_file_readers, active_log,
          log_file_paths, log_file_counter, bytes_for_compaction, poisoned,
          ret, model, ops, smalls, lock, thr,
          shared_injector, chan, wk, nthreads, jobs, runs, fin, handed, alive,
          srv, conn, smodel, engine_file, boot, sled_mem, sled_disk, sled_acked>>

\* ------------------------------------------------------------------------
\* Helpers on finite maps and sequences
\* ------------------------------------------------------------------------
Put(f, k, v) == [x \in DOMAIN f \cup {k} |-> IF x = k THEN v ELSE f[x]]
Del(f, k) == [x \in DOMAIN f \ {k} |-> f[x]]
EmptyMap == [x \in {} |-> 0]

RECURSIVE Without(_, _)
Without(s, x) ==
    IF s = <<>> THEN <<>>
    ELSE IF Head(s) = x THEN Without(Tail(s), x)
    ELSE <<Head(s)>> \o Without(Tail(s), x)

\* ------------------------------------------------------------------------
\* Records and frames
\* ------------------------------------------------------------------------
SetRec(k, v) == [t |-> "Set", k |-> k, v |-> v, n |-> 0]
DeleteRec(k) == [t |-> "Delete", k |-> k, v |-> NoVal, n |-> 0]
\* a frame of which only the first n bytes reached the file
TornRec(n) == [t |-> "Torn", k |-> NoVal, v |-> NoVal, n |-> n]

\* the keys and values the clients of the server use, and their UTF-8 bytes
SrvKeys == {"a", "a "}
SrvVals == {"s", "s ", "", "uv", "xyz", "NONE"}
Texts == SrvKeys \cup SrvVals

Utf8(s) ==
    CASE s = "" -> <<>>
      [] s = "a" -> <<97>>
      [] s = "a " -> <<97, 32>>
      [] s = "s" -> <<115>>
      [] s = "s " -> <<115, 32>>
      [] s = "uv" -> <<117, 118>>
      [] s = "xyz" -> <<120, 121, 122>>
      [] s = "NONE" -> <<78, 79, 78, 69>>

FromUtf8(b) == CHOOSE s \in Texts : Utf8(s) = b

KeyBytes(k) == IF k \in Keys THEN KeyLen ELSE Len(Utf8(k))
ValLen(v) ==
    IF v = BigVal THEN BigLen
    ELSE IF v = SmallVal THEN SmallLen
    ELSE Len(Utf8(v))

\* bytes bson::encode_document writes for a Record
FrameSize(r) ==
    IF r.t = "Set" THEN 31 + KeyBytes(r.k) + ValLen(r.v)
    ELSE IF r.t = "Delete" THEN 18 + KeyBytes(r.k)
    ELSE r.n

RECURSIVE FileLen(_)
FileLen(recs) ==
    IF recs = <<>> THEN 0 ELSE FrameSize(Head(recs)) + FileLen(Tail(recs))

\* byte offset of the i-th frame
OffsetOf(recs, i) == FileLen(SubSeq(recs, 1, i - 1))

\* index of the frame that starts at byte offset off, 0 if there is none
FrameAt(recs, off) ==
    IF \E i \in 1..Len(recs) : OffsetOf(recs, i) = off
    THEN CHOOSE i \in 1..Len(recs) : OffsetOf(recs, i) = off
    ELSE 0

\* ------------------------------------------------------------------------
\* The engine state as one record, so that the helpers of SharedKvStore
\* can be written as functions from state to state
\* ------------------------------------------------------------------------
Cur == [files |-> files, mtime_order |-> mtime_order, log_index |-> log_index,
        log_file_readers |-> log_file_readers, active_log |-> active_log,
        log_file_paths |-> log_file_paths, log_file_counter |-> log_file_counter,
        bytes_for_compaction |-> bytes_for_compaction, err |-> FALSE]

Touch(order, p) == Without(order, p) \o <<p>>

\* length reported by active_log.file.metadata()
ActiveLen(e) ==
    IF e.active_log.unlinked THEN e.active_log.olen
    ELSE FileLen(e.files[e.active_log.path])

OpenNewLogFile(e) ==
    LET c == e.log_file_counter + 1
        fresh == c \notin DOMAIN e.files
    IN [e EXCEPT
          !.log_file_counter = c,
          !.files = IF fresh THEN Put(e.files, c, <<>>) ELSE e.files,
          !.mtime_order = IF fresh THEN e.mtime_order \o <<c>> ELSE e.mtime_order,
          !.log_file_readers = e.log_file_readers \cup {c},
          !.active_log = [path |-> c, unlinked |-> FALSE, olen |-> 0],
          !.log_file_paths = Append(e.log_file_paths, c)]

SetupActiveLogFile(e) ==
    IF ActiveLen(e) > MAX_FILE_SIZE THEN OpenNewLogFile(e) ELSE e

\* returns the new state and the location of the record written
SerializeAndWrite(e, r) ==
    LET e1 == SetupActiveLogFile(e)
        p == e1.active_log.path
        start == ActiveLen(e1)
        size == FrameSize(r)
        e2 == IF e1.active_log.unlinked
              THEN [e1 EXCEPT !.active_log.olen = start + size]
              ELSE [e1 EXCEPT !.files[p] = Append(e1.files[p], r),
                              !.mtime_order = Touch(e1.mtime_order, p)]
    IN [e |-> e2, loc |-> <<p, start, size>>]

SatSub(a, b) == IF a >= b THEN a - b ELSE 0

\* a scan loop that copies the live records and leaves their index entries
RECURSIVE CompactScan_KeepIndex(_, _, _)
CompactScan_KeepIndex(e, p, i) ==
    IF i > Len(e.files[p]) \/ e.files[p][i].t = "Torn" THEN e
    ELSE
      LET r == e.files[p][i]
          off == OffsetOf(e.files[p], i)
          k == r.k
          e1 == IF r.t = "Set" /\ k \in DOMAIN e.log_index
                THEN LET loc == e.log_index[k]
                     IN IF loc[1] = p /\ loc[2] = off
                        THEN SerializeAndWrite(e, SetRec(k, r.v)).e
                        ELSE [e EXCEPT !.bytes_for_compaction =
                                          SatSub(e.bytes_for_compaction, loc[3])]
                ELSE e
      IN CompactScan_KeepIndex(e1, p, i + 1)

\* the scan loop of compact: frame i of segment p, read as the file is now
RECURSIVE CompactScan(_, _, _)
CompactScan(e, p, i) ==
    IF i > Len(e.files[p]) \/ e.files[p][i].t = "Torn" THEN e
    ELSE
      LET r == e.files[p][i]
          off == OffsetOf(e.files[p], i)
          k == r.k
          e1 == IF r.t = "Set" /\ k \in DOMAIN e.log_index
                THEN LET loc == e.log_index[k]
                     IN IF loc[1] = p /\ loc[2] = off
                        THEN LET w == SerializeAndWrite(e, SetRec(k, r.v))
                             IN [w.e EXCEPT !.log_index = Put(w.e.log_index, k, w.loc)]
                        ELSE [e EXCEPT !.bytes_for_compaction =
                                          SatSub(e.bytes_for_compaction, loc[3])]
                ELSE e
      IN CompactScan(e1, p, i + 1)

\* a compact that deletes the oldest segment without reading it
Compact_NoCopy(e) ==
    IF e.bytes_for_compaction <= COMPACT_AFTER_BYTE_SIZE THEN e
    ELSE IF Len(e.log_file_paths) <= 1 THEN e
    ELSE
      LET p == e.log_file_paths[1]
      IN IF p \notin DOMAIN e.files THEN [e EXCEPT !.err = TRUE]
         ELSE [e EXCEPT
                 !.log_file_readers = e.log_file_readers \ {p},
                 !.files = Del(e.files, p),
                 !.mtime_order = Without(e.mtime_order, p),
                 !.active_log = IF e.active_log.path = p /\ ~e.active_log.unlinked
                                THEN [path |-> p, unlinked |-> TRUE,
                                      olen |-> FileLen(e.files[p])]
                                ELSE e.active_log,
                 !.log_file_paths = Without(e.log_file_paths, p)]

\* a compact that only looks at the number of segments, not at the meter
Compact_NoThreshold(e) ==
    IF Len(e.log_file_paths) <= 1 THEN e
    ELSE LET p == e.log_file_paths[1]
             e1 == CompactScan(e, p, 1)
         IN [e1 EXCEPT
               !.log_file_readers = e1.log_file_readers \ {p},
               !.files = Del(e1.files, p),
               !.mtime_order = Without(e1.mtime_order, p),
               !.active_log = IF e1.active_log.path = p /\ ~e1.active_log.unlinked
                              THEN [path |-> p, unlinked |-> TRUE,
                                    olen |-> FileLen(e1.files[p])]
                              ELSE e1.active_log,
               !.log_file_paths = Without(e1.log_file_paths, p)]

Compact(e) ==
    IF e.bytes_for_compaction <= COMPACT_AFTER_BYTE_SIZE THEN e
    ELSE IF Len(e.log_file_paths) <= 1 THEN e
    ELSE
      LET p == e.log_file_paths[1]
      IN IF p \notin DOMAIN e.files THEN [e EXCEPT !.err = TRUE]
         ELSE
           LET e1 == CompactScan(e, p, 1)
           IN [e1 EXCEPT
                 !.log_file_readers = e1.log_file_readers \ {p},
                 !.files = Del(e1.files, p),
                 !.mtime_order = Without(e1.mtime_order, p),
                 !.active_log = IF e1.active_log.path = p /\ ~e1.active_log.unlinked
                                THEN [path |-> p, unlinked |-> TRUE,
                                      olen |-> FileLen(e1.files[p])]
                                ELSE e1.active_log,
                 !.log_file_paths = Without(e1.log_file_paths, p)]

\* ------------------------------------------------------------------------
\* KvStore::open
\* ------------------------------------------------------------------------
\* scan of one segment during open: st = [idx, bfc]
RECURSIVE OpenScanFile(_, _, _, _)
OpenScanFile(st, p, recs, i) ==
    IF i > Len(recs) \/ recs[i].t = "Torn" THEN st
    ELSE
      LET r == recs[i]
          st1 == IF r.t = "Set"
                 THEN [idx |-> Put(st.idx, r.k, <<p, OffsetOf(recs, i), FrameSize(r)>>),
                       bfc |-> IF r.k \in DOMAIN st.idx
                               THEN st.bfc + st.idx[r.k][3] ELSE st.bfc]
                 ELSE [idx |-> Del(st.idx, r.k), bfc |-> st.bfc]
      IN OpenScanFile(st1, p, recs, i + 1)

RECURSIVE OpenScan(_, _, _)
OpenScan(st, fs, order) ==
    IF order = <<>> THEN st
    ELSE OpenScan(OpenScanFile(st, Head(order), fs[Head(order)], 1), fs, Tail(order))

\* an open that takes the first segment scanned as the active one
Open_FirstScanned(fs, order) ==
    LET st == OpenScan([idx |-> EmptyMap, bfc |-> 0], fs, order)
        none == order = <<>>
        active == IF none THEN 0 ELSE order[1]
    IN [files |-> IF none THEN Put(fs, 0, <<>>) ELSE fs,
        mtime_order |-> IF none THEN <<0>> ELSE order,
        log_index |-> st.idx,
        log_file_readers |-> (DOMAIN fs) \cup {active},
        active_log |-> [path |-> active, unlinked |-> FALSE, olen |-> 0],
        log_file_paths |-> IF none THEN <<0>> ELSE order,
        log_file_counter |-> Cardinality(DOMAIN fs),
        bytes_for_compaction |-> st.bfc,
        err |-> FALSE]

\* the engine that open builds on a directory (fs, order)
Open(fs, order) ==
    LET st == OpenScan([idx |-> EmptyMap, bfc |-> 0], fs, order)
        none == order = <<>>
        active == IF none THEN 0 ELSE order[Len(order)]
    IN [files |-> IF none THEN Put(fs, 0, <<>>) ELSE fs,
        mtime_order |-> IF none THEN <<0>> ELSE order,
        log_index |-> st.idx,
        log_file_readers |-> (DOMAIN fs) \cup {active},
        active_log |-> [path |-> active, unlinked |-> FALSE, olen |-> 0],
        log_file_paths |-> IF none THEN <<0>> ELSE order,
        log_file_counter |-> Cardinality(DOMAIN fs),
        bytes_for_compaction |-> st.bfc,
        err |-> FALSE]

\* ------------------------------------------------------------------------
\* KvsEngine for KvStore
\* ------------------------------------------------------------------------
None == "None"
Panic == "panic"
DecoderError == "DecoderError"

\* what get(k) returns in engine state e
GetIn(e, k) ==
    IF k \notin DOMAIN e.log_index THEN None
    ELSE LET loc == e.log_index[k]
         IN IF loc[1] \notin e.log_file_readers THEN Panic
            ELSE IF loc[1] \notin DOMAIN e.files THEN DecoderError
            ELSE LET i == FrameAt(e.files[loc[1]], loc[2])
                 IN IF i = 0 \/ e.files[loc[1]][i].t = "Torn" THEN DecoderError
                    ELSE IF e.files[loc[1]][i].t = "Set" THEN e.files[loc[1]][i].v
                    ELSE None

\* log_index.insert of set, with the meter update (kv_store.rs 141-144)
IndexInsert_KeepOld(e, k, loc) ==
    IF k \in DOMAIN e.log_index
    THEN [e EXCEPT !.bytes_for_compaction = e.bytes_for_compaction + loc[3]]
    ELSE [e EXCEPT !.log_index = Put(e.log_index, k, loc)]

\* an insert that adds the size of the new record to the meter, not the old
IndexInsert_NewSize(e, k, loc) ==
    [e EXCEPT
       !.log_index = Put(e.log_index, k, loc),
       !.bytes_for_compaction =
           IF k \in DOMAIN e.log_index
           THEN e.bytes_for_compaction + loc[3]
           ELSE e.bytes_for_compaction]

IndexInsert(e, k, loc) ==
    [e EXCEPT
       !.log_index = Put(e.log_index, k, loc),
       !.bytes_for_compaction =
           IF k \in DOMAIN e.log_index
           THEN e.bytes_for_compaction + e.log_index[k][3]
           ELSE e.bytes_for_compaction]

SetIn(e, k, v) ==
    LET w == SerializeAndWrite(e, SetRec(k, v))
    IN Compact(IndexInsert(w.e, k, w.loc))

\* remove of a key that is in the index: the entry is taken out, ...
RemoveEntry(e, k) == [e EXCEPT !.log_index = Del(e.log_index, k)]

\* ... the tombstone is appended and the meter grows by the old frame size
RemoveWrite(e, k, size) ==
    LET w == SerializeAndWrite(e, DeleteRec(k))
    IN [w.e EXCEPT !.bytes_for_compaction = w.e.bytes_for_compaction + size]

RemoveIn(e, k) ==
    Compact(RemoveWrite(RemoveEntry(e, k), k, e.log_index[k][3]))

\* the key-value mapping a caller observes
View(e) == [k \in Keys |-> GetIn(e, k)]

Install(e) ==
    /\ files' = e.files
    /\ mtime_order' = e.mtime_order
    /\ log_index' = e.log_index
    /\ log_file_readers' = e.log_file_readers
    /\ active_log' = e.active_log
    /\ log_file_paths' = e.log_file_paths
    /\ log_file_counter' = e.log_file_counter
    /\ bytes_for_compaction' = e.bytes_for_compaction

\* ------------------------------------------------------------------------
\* SharedQueueThreadPool (thread_pool/shared_queue.rs)
\* ------------------------------------------------------------------------
\* every panicking job ends one worker thread, so no more threads than this
\* a thread is named by the channel it reads and by the number of panics
\* before it on that channel: thread t is replaced by thread t + PoolSize
MaxThreads == PoolSize * (MaxJobs + 1)

Terminate == [m |-> "Terminate", x |-> 0]
AddStealer(t) == [m |-> "AddStealer", x |-> t]
AddSender(c) == [m |-> "AddSender", x |-> c]

Range(q) == {q[i] : i \in 1..Len(q)}

\* what new() sends on the channel of worker c before the worker starts
NewChannel(c) == <<AddSender(c)>> \o [i \in 1..PoolSize |-> AddStealer(i)]

\* Worker::new; the local queue of a worker is named by its thread
NewWorker(c) == [pc |-> "loop", rx |-> c, job |-> 0, local |-> <<>>,
                 stealers |-> <<>>, senders |-> <<>>]
NoWorker == [pc |-> "none", rx |-> 0, job |-> 0, local |-> <<>>,
             stealers |-> <<>>, senders |-> <<>>]

Live(t) == wk[t].pc \in {"loop", "job"}

\* the first stealer, in the order of the list, whose queue has a task
RECURSIVE FirstVictimIn(_, _)
FirstVictimIn(w, st) ==
    IF st = <<>> THEN 0
    ELSE IF w[Head(st)].local # <<>> THEN Head(st)
    ELSE FirstVictimIn(w, Tail(st))

FirstVictim(st) == FirstVictimIn(wk, st)

\* sender.send(msg) for every sender of the list
RECURSIVE SendAll(_, _, _)
SendAll(ch, senders, msg) ==
    IF senders = <<>> THEN ch
    ELSE SendAll([ch EXCEPT ![Head(senders)] = Append(@, msg)], Tail(senders), msg)

\* a spawn that hands the job to a worker waiting for one
Spawn_Rendezvous(kind) ==
    /\ alive
    /\ Len(jobs) < MaxJobs
    /\ \E t \in 1..MaxThreads : wk[t].pc = "loop" /\ wk[t].local = <<>>
    /\ jobs' = Append(jobs, kind)
    /\ shared_injector' = Append(shared_injector, Len(jobs) + 1)
    /\ UNCHANGED <<chan, wk, nthreads, runs, fin, handed, alive,
                   kvvars, histvars, concvars, extvars>>

\* SharedQueueThreadPool::spawn
Spawn(kind) ==
    /\ alive
    /\ Len(jobs) < MaxJobs
    /\ jobs' = Append(jobs, kind)
    /\ shared_injector' = Append(shared_injector, Len(jobs) + 1)
    /\ UNCHANGED <<chan, wk, nthreads, runs, fin, handed, alive,
                   kvvars, histvars, concvars, extvars>>

\* Drop for SharedQueueThreadPool
DropPool ==
    /\ alive
    /\ alive' = FALSE
    /\ chan' = [c \in 1..PoolSize |-> Append(chan[c], Terminate)]
    /\ UNCHANGED <<shared_injector, wk, nthreads, jobs, runs, fin, handed,
                   kvvars, histvars, concvars, extvars>>

\* the worker after try_recv returned msg (Terminate apart)
Received(w, t, msg) ==
    IF msg.m = "AddStealer" THEN [w EXCEPT ![t].stealers = Append(@, msg.x)]
    ELSE IF msg.m = "AddSender" THEN [w EXCEPT ![t].senders = Append(@, msg.x)]
    ELSE w

\* the job j is invoked by worker t
Invoked(w, t, j) == [w EXCEPT ![t].pc = "job", ![t].job = j]

\* find_task and the call f(): from the local queue, else a batch of the
\* global queue of which the first is run, else one task of the first
\* stealer that has one
FindTask(w, t) ==
    IF w[t].local # <<>>
    THEN /\ wk' = Invoked([w EXCEPT ![t].local = Tail(@)], t, Head(w[t].local))
         /\ runs' = [runs EXCEPT ![Head(w[t].local)] = @ + 1]
         /\ UNCHANGED shared_injector
    ELSE IF shared_injector # <<>>
    THEN \E b \in 1..Len(shared_injector) :
           /\ wk' = Invoked([w EXCEPT ![t].local = SubSeq(shared_injector, 2, b)],
                            t, Head(shared_injector))
           /\ shared_injector' = SubSeq(shared_injector, b + 1, Len(shared_injector))
           /\ runs' = [runs EXCEPT ![Head(shared_injector)] = @ + 1]
    ELSE LET v == FirstVictim(w[t].stealers)
         IN IF v # 0
            THEN /\ wk' = Invoked([w EXCEPT ![v].local = Tail(@)], t, Head(w[v].local))
                 /\ runs' = [runs EXCEPT ![Head(w[v].local)] = @ + 1]
                 /\ UNCHANGED shared_injector
            ELSE /\ wk' = w
                 /\ UNCHANGED <<runs, shared_injector>>

\* a loop that takes Terminate from the channel and goes on
Iterate_NoBreak(t) ==
    /\ wk[t].pc = "loop"
    /\ LET c == wk[t].rx
           msg == IF chan[c] = <<>> THEN [m |-> "none", x |-> 0] ELSE Head(chan[c])
       IN /\ chan' = IF chan[c] = <<>> THEN chan ELSE [chan EXCEPT ![c] = Tail(@)]
          /\ FindTask(Received(wk, t, msg), t)
    /\ UNCHANGED <<nthreads, jobs, fin, handed, alive, kvvars, histvars, concvars, extvars>>

\* Worker::start, one iteration of the loop: try_recv, then find_task
Iterate(t) ==
    /\ wk[t].pc = "loop"
    /\ LET c == wk[t].rx
           msg == IF chan[c] = <<>> THEN [m |-> "none", x |-> 0] ELSE Head(chan[c])
       IN /\ chan' = IF chan[c] = <<>> THEN chan ELSE [chan EXCEPT ![c] = Tail(@)]
          /\ IF msg.m = "Terminate"
             THEN /\ wk' = [wk EXCEPT ![t].pc = "exited"]
                  /\ UNCHANGED <<runs, shared_injector>>
             ELSE FindTask(Received(wk, t, msg), t)
    /\ UNCHANGED <<nthreads, jobs, fin, handed, alive, kvvars, histvars, concvars, extvars>>

\* the job returns, or panics and the thread starts to unwind
Finish(t) ==
    /\ wk[t].pc = "job"
    /\ fin' = fin \cup {wk[t].job}
    /\ wk' = IF jobs[wk[t].job] = "ok"
             THEN [wk EXCEPT ![t].pc = "loop", ![t].job = 0]
             ELSE [wk EXCEPT ![t].pc = "unwinding", ![t].job = 0]
    /\ UNCHANGED <<shared_injector, chan, nthreads, jobs, runs, handed, alive,
                   kvvars, histvars, concvars, extvars>>

\* a drop that starts the replacement with an empty queue
Unwind_EmptyQueue(t) ==
    /\ wk[t].pc = "unwinding"
    /\ LET new == t + PoolSize
       IN /\ wk' = [wk EXCEPT ![t].pc = "dead", ![t].local = <<>>,
                              ![new] = [pc |-> "loop", rx |-> wk[t].rx, job |-> 0,
                                        local |-> <<>>,
                                        stealers |-> Append(wk[t].stealers, new),
                                        senders |-> wk[t].senders]]
          /\ chan' = SendAll(chan, wk[t].senders, AddStealer(new))
          /\ nthreads' = nthreads + 1
    /\ handed' = handed \cup Range(wk[t].local)
    /\ UNCHANGED <<shared_injector, jobs, runs, fin, alive,
                   kvvars, histvars, concvars, extvars>>

\* a drop that copies the tasks and leaves them in the old queue as well
Unwind_CopyQueue(t) ==
    /\ wk[t].pc = "unwinding"
    /\ LET new == t + PoolSize
       IN /\ wk' = [wk EXCEPT ![t].pc = "dead",
                              ![new] = [pc |-> "loop", rx |-> wk[t].rx, job |-> 0,
                                        local |-> wk[t].local,
                                        stealers |-> Append(wk[t].stealers, new),
                                        senders |-> wk[t].senders]]
          /\ chan' = SendAll(chan, wk[t].senders, AddStealer(new))
          /\ nthreads' = nthreads + 1
    /\ handed' = handed \cup Range(wk[t].local)
    /\ UNCHANGED <<shared_injector, jobs, runs, fin, alive,
                   kvvars, histvars, concvars, extvars>>

\* a drop that does not start a replacement
Unwind_NoRespawn(t) ==
    /\ wk[t].pc = "unwinding"
    /\ wk' = [wk EXCEPT ![t].pc = "dead"]
    /\ UNCHANGED <<shared_injector, chan, nthreads, jobs, runs, fin, handed, alive,
                   kvvars, histvars, concvars, extvars>>

\* Drop for Worker while thread::panicking()
Unwind(t) ==
    /\ wk[t].pc = "unwinding"
    /\ LET new == t + PoolSize
       IN /\ wk' = [wk EXCEPT ![t].pc = "dead", ![t].local = <<>>,
                              ![new] = [pc |-> "loop", rx |-> wk[t].rx, job |-> 0,
                                        local |-> wk[t].local,
                                        stealers |-> Append(wk[t].stealers, new),
                                        senders |-> wk[t].senders]]
          /\ chan' = SendAll(chan, wk[t].senders, AddStealer(new))
          /\ nthreads' = nthreads + 1
    /\ handed' = handed \cup Range(wk[t].local)
    /\ UNCHANGED <<shared_injector, jobs, runs, fin, alive,
                   kvvars, histvars, concvars, extvars>>

WorkerStep(t) == Iterate(t) \/ Finish(t) \/ Unwind(t)

NextPool ==
    \/ \E kind \in {"ok", "panic"} : Spawn(kind)
    \/ DropPool
    \/ \E t \in 1..MaxThreads : Iterate(t)
    \/ \E t \in 1..MaxThreads : Finish(t)
    \/ \E t \in 1..MaxThreads : Unwind(t)

Ok == "Ok"
NonExistentKey == "NonExistentKeyError"
LockError == "LockError"
Io == "Io"

Call(op, k, v, res) == [op |-> op, key |-> k, val |-> v, res |-> res]

EmptyDir == Open(EmptyMap, <<>>)

Idle == [pc |-> "idle", op |-> NoVal, key |-> NoVal, val |-> NoVal,
         loc |-> <<0, 0, 0>>, res |-> NoVal, expect |-> NoVal]

\* ------------------------------------------------------------------------
\* Text on the wire (src/src/server.rs, src/src/client.rs): a string is the
\* sequence of its UTF-8 bytes
\* ------------------------------------------------------------------------
MaxConns == 2        \* connections made to the server in one behaviour
MaxBoots == 3        \* starts of the server process in one behaviour

LF == 10
COLON == 58
PAD == 61
\* char::is_whitespace, within ASCII
Whitespace == {9, 10, 11, 12, 13, 32}

GET == <<71, 69, 84>>
SET == <<83, 69, 84>>
REMOVE == <<82, 69, 77, 79, 86, 69>>
EXIT == <<69, 88, 73, 84>>
OK == <<79, 75>>
ERR == <<69, 82, 82>>
NONE == <<78, 79, 78, 69>>
ErrorGettingValue ==
    <<69, 114, 114, 111, 114, 32, 103, 101, 116, 116, 105, 110, 103, 32,
      118, 97, 108, 117, 101>>
ErrorSettingKey ==
    <<69, 114, 114, 111, 114, 32, 115, 101, 116, 116, 105, 110, 103, 32,
      107, 101, 121>>
KeyNotFound == <<75, 101, 121, 32, 110, 111, 116, 32, 102, 111, 117, 110, 100>>
CommandNotRecognized ==
    <<67, 111, 109, 109, 97, 110, 100, 32, 110, 111, 116, 32, 114, 101, 99,
      111, 103, 110, 105, 122, 101, 100>>
UndefinedResponse ==
    <<85, 110, 100, 101, 102, 105, 110, 101, 100, 32, 114, 101, 115, 112,
      111, 110, 115, 101, 32, 102, 114, 111, 109, 32, 115, 101, 114, 118,
      101, 114>>

\* str::trim_end
RECURSIVE TrimEnd(_)
TrimEnd(s) ==
    IF s # <<>> /\ s[Len(s)] \in Whitespace
    THEN TrimEnd(SubSeq(s, 1, Len(s) - 1))
    ELSE s

\* str::split(sep), collected
RECURSIVE Split(_, _)
Split(s, sep) ==
    IF \E i \in 1..Len(s) : s[i] = sep
    THEN LET i == CHOOSE n \in 1..Len(s) :
                     s[n] = sep /\ \A m \in 1..(n - 1) : s[m] # sep
         IN <<SubSeq(s, 1, i - 1)>> \o Split(SubSeq(s, i + 1, Len(s)), sep)
    ELSE <<s>>

\* BufRead::read_line: the bytes up to and with the first LF; an error if
\* they are not UTF-8
ReadLine(bytes) ==
    LET line == IF \E i \in 1..Len(bytes) : bytes[i] = LF
                THEN SubSeq(bytes, 1, CHOOSE n \in 1..Len(bytes) :
                         bytes[n] = LF /\ \A m \in 1..(n - 1) : bytes[m] # LF)
                ELSE bytes
    IN [ok |-> \A i \in 1..Len(line) : line[i] < 128, line |-> line]

\* the standard base64 alphabet
B64Char(i) ==
    IF i < 26 THEN 65 + i
    ELSE IF i < 52 THEN 97 + (i - 26)
    ELSE IF i < 62 THEN 48 + (i - 52)
    ELSE IF i = 62 THEN 43 ELSE 47

B64Index(c) ==
    IF c \in 65..90 THEN c - 65
    ELSE IF c \in 97..122 THEN c - 97 + 26
    ELSE IF c \in 48..57 THEN c - 48 + 52
    ELSE IF c = 43 THEN 62 ELSE 63

\* base64::encode
RECURSIVE Base64Encode(_)
Base64Encode(b) ==
    IF b = <<>> THEN <<>>
    ELSE IF Len(b) = 1
    THEN <<B64Char(b[1] \div 4), B64Char((b[1] % 4) * 16), PAD, PAD>>
    ELSE IF Len(b) = 2
    THEN <<B64Char(b[1] \div 4), B64Char((b[1] % 4) * 16 + b[2] \div 16),
           B64Char((b[2] % 16) * 4), PAD>>
    ELSE <<B64Char(b[1] \div 4), B64Char((b[1] % 4) * 16 + b[2] \div 16),
           B64Char((b[2] % 16) * 4 + b[3] \div 64), B64Char(b[3] % 64)>>
         \o Base64Encode(SubSeq(b, 4, Len(b)))

\* base64::decode of well-formed input
RECURSIVE Base64Decode(_)
Base64Decode(c) ==
    IF Len(c) < 4 THEN <<>>
    ELSE LET i1 == B64Index(c[1])
             i2 == B64Index(c[2])
             i3 == B64Index(c[3])
             i4 == B64Index(c[4])
             b1 == i1 * 4 + i2 \div 16
             b2 == (i2 % 16) * 16 + i3 \div 4
             b3 == (i3 % 4) * 64 + i4
         IN IF c[3] = PAD THEN <<b1>>
            ELSE IF c[4] = PAD THEN <<b1, b2>>
            ELSE <<b1, b2, b3>> \o Base64Decode(SubSeq(c, 5, Len(c)))

\* KvsClient::serialize
Serialize(cmd) ==
    IF cmd.c = "Get" THEN GET \o <<COLON>> \o Utf8(cmd.k)
    ELSE IF cmd.c = "Set" THEN SET \o <<COLON>> \o Utf8(cmd.k) \o <<COLON>> \o Utf8(cmd.v)
    ELSE IF cmd.c = "Remove" THEN REMOVE \o <<COLON>> \o Utf8(cmd.k)
    ELSE EXIT

Command(c, k, v) == [c |-> c, k |-> k, v |-> v]

\* the commands the clients send with KvsClient::send ...
Commands ==
    {Command("Get", k, "") : k \in SrvKeys}
    \cup {Command("Set", "a", v) : v \in SrvVals}
    \cup {Command("Set", "a ", "s")}
    \cup {Command("Remove", k, "") : k \in SrvKeys}
    \cup {Command("Exit", "", "")}

\* ... and what a client that writes to the socket itself may send: a
\* command without its key, an unknown command, an empty line, EXIT
\* followed by a space, a byte that is not UTF-8, two lines at once
RawRequests ==
    {GET \o <<LF>>,
     <<70, 79, 79, LF>>,
     <<LF>>,
     EXIT \o <<32, LF>>,
     <<255, LF>>,
     SET \o <<COLON, 97, COLON, 115, LF>> \o REMOVE \o <<COLON, 97, LF>>}

Requests == {Serialize(c) \o <<LF>> : c \in Commands} \cup RawRequests

\* ------------------------------------------------------------------------
\* KvsServer
\* ------------------------------------------------------------------------
Result(out, body, e, eops, pois) ==
    [out |-> out, body |-> body, e |-> e, eops |-> eops, poisoned |-> pois]

\* the dispatch of handle_incoming on the sections of the trimmed line:
\* out is Ok, Err or Exit of ServerResult, "panic" when an unwrap unwinds
Dispatch(e, pois, sections) ==
    IF sections[1] = GET
    THEN IF Len(sections) < 2 THEN Result("panic", <<>>, e, 0, pois)
         ELSE CHOOSE res \in
                {IF r = Panic THEN Result("panic", <<>>, e, 1, TRUE)
                 ELSE IF r \in {"LockError", DecoderError}
                 THEN Result("Err", ErrorGettingValue, e, 1, pois)
                 ELSE IF r = None THEN Result("Ok", NONE, e, 1, pois)
                 ELSE Result("Ok", Utf8(r), e, 1, pois)
                 : r \in {IF pois THEN "LockError"
                          ELSE GetIn(e, FromUtf8(sections[2]))}} : TRUE
    ELSE IF sections[1] = SET
    THEN IF Len(sections) < 3 THEN Result("panic", <<>>, e, 0, pois)
         ELSE IF pois THEN Result("Err", ErrorSettingKey, e, 1, pois)
         ELSE CHOOSE res \in
                {IF e2.err THEN Result("Err", ErrorSettingKey, e2, 1, pois)
                 ELSE Result("Ok", <<>>, e2, 1, pois)
                 : e2 \in {SetIn(e, FromUtf8(sections[2]), FromUtf8(sections[3]))}} : TRUE
    ELSE IF sections[1] = REMOVE
    THEN IF Len(sections) < 2 THEN Result("panic", <<>>, e, 0, pois)
         ELSE IF pois \/ FromUtf8(sections[2]) \notin DOMAIN e.log_index
         THEN Result("Err", KeyNotFound, e, 1, pois)
         ELSE CHOOSE res \in
                {IF e2.err THEN Result("Err", KeyNotFound, e2, 1, pois)
                 ELSE Result("Ok", <<>>, e2, 1, pois)
                 : e2 \in {RemoveIn(e, FromUtf8(sections[2]))}} : TRUE
    ELSE IF sections[1] = EXIT THEN Result("Exit", <<>>, e, 0, pois)
    ELSE Result("Err", CommandNotRecognized, e, 0, pois)

\* a handler that goes on reading lines until the stream is at its end
RECURSIVE HandleIncoming_AllLines(_, _, _)
HandleIncoming_AllLines(e, pois, bytes) ==
    CHOOSE res \in
      {IF ~rl.ok THEN Result("io", <<>>, e, 0, pois)
       ELSE CHOOSE r \in
              {IF Len(bytes) > Len(rl.line) /\ first.out \in {"Ok", "Err"}
               THEN CHOOSE q \in
                      {[nxt EXCEPT !.eops = @ + first.eops]
                       : nxt \in {HandleIncoming_AllLines(first.e, first.poisoned,
                                      SubSeq(bytes, Len(rl.line) + 1, Len(bytes)))}} : TRUE
               ELSE first
               : first \in {Dispatch(e, pois, Split(TrimEnd(rl.line), COLON))}} : TRUE
       : rl \in {ReadLine(bytes)}} : TRUE

\* handle_incoming on the bytes a client sent, with the engine in state e:
\* out is "io" when read_line fails and handle_incoming returns Err
HandleIncoming(e, pois, bytes) ==
    CHOOSE res \in
      {IF ~rl.ok THEN Result("io", <<>>, e, 0, pois)
       ELSE CHOOSE r \in {Dispatch(e, pois, sections)
                          : sections \in {Split(TrimEnd(rl.line), COLON)}} : TRUE
       : rl \in {ReadLine(bytes)}} : TRUE

\* handle_response: the bytes written to the stream
HandleResponse(out, body) ==
    IF out = "Ok" THEN OK \o <<COLON>> \o Base64Encode(body)
    ELSE IF out = "Err" THEN ERR \o <<COLON>> \o Base64Encode(body)
    ELSE <<>>

\* a client that returns the text after the ':' as it came
HandleResponses_Raw(incoming) ==
    CHOOSE res \in
      {[err |-> IF sections[1] = OK THEN "" ELSE "ClientError",
        body |-> IF Len(sections) >= 2 THEN sections[2] ELSE UndefinedResponse]
       : sections \in {Split(TrimEnd(incoming), COLON)}} : TRUE

\* KvsClient::handle_responses
HandleResponses(incoming) ==
    CHOOSE res \in
      {[err |-> IF sections[1] = OK THEN "" ELSE "ClientError",
        body |-> IF Len(sections) >= 2 THEN Base64Decode(sections[2])
                 ELSE UndefinedResponse]
       : sections \in {Split(TrimEnd(incoming), COLON)}} : TRUE

\* a key no reply has said anything about
Unset == "Unset"

NoRes == [err |-> "-", body |-> <<>>]
NoConn == [st |-> "new", req |-> <<>>, out |-> "-", body |-> <<>>, reply |-> <<>>,
           eops |-> 0, sent |-> NoVal, expect |-> NoVal, res |-> NoRes]

\* the job of connection c ran handle_incoming to its end
Handled(c) == conn[c].st \in {"closed", "done"} /\ conn[c].out \notin {"reset", "dropped"}

\* the tokens of a request as the protocol defines them: the line without
\* its LF, split at ':'
Tokens(req) ==
    LET line == ReadLine(req).line
    IN Split(IF line # <<>> /\ line[Len(line)] = LF
             THEN SubSeq(line, 1, Len(line) - 1) ELSE line, COLON)

IsGet(req) == ReadLine(req).ok /\ Tokens(req)[1] = GET /\ Len(Tokens(req)) = 2
IsSet(req) == ReadLine(req).ok /\ Tokens(req)[1] = SET /\ Len(Tokens(req)) = 3
IsRemove(req) == ReadLine(req).ok /\ Tokens(req)[1] = REMOVE /\ Len(Tokens(req)) = 2
KeyOf(req) == FromUtf8(Tokens(req)[2])
ValOf(req) == FromUtf8(Tokens(req)[3])

\* what the replies made so far promise for the keys, after this reply
Promised(m, req, out) ==
    IF out = "Ok" /\ IsSet(req) THEN [m EXCEPT ![KeyOf(req)] = ValOf(req)]
    ELSE IF out = "Ok" /\ IsRemove(req) THEN [m EXCEPT ![KeyOf(req)] = None]
    ELSE m

\* a client connects and writes its request: KvsClient::new, and the
\* writes of KvsClient::send
Connect(c, req) ==
    /\ conn[c].st = "new"
    /\ \A d \in 1..(c - 1) : conn[d].st # "new"
    /\ srv.pc # "exited"
    /\ conn' = [conn EXCEPT ![c].st = "backlog", ![c].req = req,
                            ![c].sent = IF IsGet(req) THEN smodel[KeyOf(req)] ELSE NoVal]
    /\ UNCHANGED <<srv, smodel, bootvars, kvvars, histvars, concvars, poolvars>>

\* a connection attempt after the listener was closed
ConnectRefused(c) ==
    /\ conn[c].st = "new"
    /\ \A d \in 1..(c - 1) : conn[d].st # "new"
    /\ srv.pc = "exited"
    /\ conn' = [conn EXCEPT ![c].st = "refused"]
    /\ UNCHANGED <<srv, smodel, bootvars, kvvars, histvars, concvars, poolvars>>

\* KvsServer::stop
Stop ==
    /\ srv.stops = 0
    /\ srv.pc # "exited"
    /\ srv' = [srv EXCEPT !.term = @ + 1, !.stops = @ + 1]
    /\ UNCHANGED <<conn, smodel, bootvars, kvvars, histvars, concvars, poolvars>>

\* the acceptor: listener.incoming() yields the oldest pending connection,
\* and its job is handed to the pool
Accept(c) ==
    /\ srv.pc = "accept"
    /\ conn[c].st = "backlog"
    /\ \A d \in 1..(c - 1) : conn[d].st # "backlog"
    /\ conn' = [conn EXCEPT ![c].st = "queued"]
    /\ srv' = [srv EXCEPT !.pc = "check"]
    /\ UNCHANGED <<smodel, bootvars, kvvars, histvars, concvars, poolvars>>

\* a try_recv that takes the Terminate and goes on accepting
Check_NoBreak ==
    /\ srv.pc = "check"
    /\ srv' = IF srv.term > 0
              THEN [srv EXCEPT !.pc = "accept", !.term = @ - 1]
              ELSE [srv EXCEPT !.pc = "accept"]
    /\ UNCHANGED <<conn, smodel, bootvars, kvvars, histvars, concvars, poolvars>>

\* the acceptor: receiver.try_recv() after the spawn
Check ==
    /\ srv.pc = "check"
    /\ srv' = IF srv.term > 0
              THEN [srv EXCEPT !.pc = "exited", !.term = @ - 1]
              ELSE [srv EXCEPT !.pc = "accept"]
    /\ UNCHANGED <<conn, smodel, bootvars, kvvars, histvars, concvars, poolvars>>

\* the job of a connection, run by a worker of the pool: handle_incoming,
\* then the Terminate of EXIT or handle_response; the stream is dropped
Handle(c) ==
    /\ conn[c].st = "queued"
    /\ \E h \in {HandleIncoming(Cur, poisoned, conn[c].req)} :
          /\ Install(h.e)
          /\ poisoned' = h.poisoned
          /\ conn' = [conn EXCEPT
                        ![c].st = "closed", ![c].out = h.out, ![c].body = h.body,
                        ![c].reply = HandleResponse(h.out, h.body),
                        ![c].eops = h.eops,
                        ![c].expect = IF IsGet(conn[c].req)
                                      THEN smodel[KeyOf(conn[c].req)] ELSE NoVal]
          /\ srv' = IF h.out = "Exit" THEN [srv EXCEPT !.term = @ + 1] ELSE srv
          /\ smodel' = Promised(smodel, conn[c].req, h.out)
    /\ UNCHANGED <<bootvars, histvars, concvars, poolvars>>

\* after the acceptor has left its loop: the listener is closed with the
\* connection still pending, or the pool is dropped with the job still
\* queued; the stream is closed and nothing was written
Dropped(c) ==
    /\ srv.pc = "exited"
    /\ conn[c].st \in {"backlog", "queued"}
    /\ conn' = [conn EXCEPT ![c].st = "closed",
                            ![c].out = IF conn[c].st = "backlog" THEN "reset" ELSE "dropped"]
    /\ UNCHANGED <<srv, smodel, bootvars, kvvars, histvars, concvars, poolvars>>

\* KvsClient::send after the writes: read_to_string returns at the end of
\* the stream, then handle_responses
Recv(c) ==
    /\ conn[c].st = "closed"
    /\ conn' = [conn EXCEPT
                  ![c].st = "done",
                  ![c].res = IF conn[c].out = "reset" THEN [err |-> "Io", body |-> <<>>]
                             ELSE HandleResponses(conn[c].reply)]
    /\ UNCHANGED <<srv, smodel, bootvars, kvvars, histvars, concvars, poolvars>>

AcceptorStep == Check \/ \E c \in 1..MaxConns : Accept(c)

NextServer ==
    \/ \E c \in 1..MaxConns, req \in Requests : Connect(c, req)
    \/ \E c \in 1..MaxConns : ConnectRefused(c)
    \/ Stop
    \/ \E c \in 1..MaxConns : Accept(c)
    \/ Check
    \/ \E c \in 1..MaxConns : Handle(c)
    \/ \E c \in 1..MaxConns : Dropped(c)
    \/ \E c \in 1..MaxConns : Recv(c)

\* ------------------------------------------------------------------------
\* The server process (src/src/bin/kvs-server.rs) and the sled adapter
\* (src/src/sled.rs, the module lib.rs compiles)
\* ------------------------------------------------------------------------
\* get_engine: the file `engine` does not exist
NotFound == "NotFound"

\* the values of --engine: the two backends, and a name that is neither
EngineOpts == {"kvs", "sled", "rocks"}
SledVals == {"s", "uv"}

\* a main that writes the file before it compares
Startup_WriteFirst(engine_opt) ==
    /\ boot.opened = ""
    /\ boot.n < MaxBoots
    /\ engine_file' = engine_opt
    /\ boot' = [opt |-> engine_opt, res |-> "engine mismatch", opened |-> "",
                n |-> boot.n + 1]
    /\ UNCHANGED <<sled_mem, sled_disk, sled_acked, netvars, kvvars, histvars, concvars,
                   poolvars>>

\* main, from the parsing of --engine to the start of the server: the
\* comparison with the file, fs::write, the open of the store
Startup(engine_opt) ==
    /\ boot.opened = ""
    /\ boot.n < MaxBoots
    /\ LET prev_engine == IF engine_file = NotFound THEN engine_opt ELSE engine_file
       IN IF prev_engine # engine_opt
          THEN /\ boot' = [opt |-> engine_opt, res |-> "engine mismatch",
                           opened |-> "", n |-> boot.n + 1]
               /\ UNCHANGED <<engine_file, sled_mem, kvvars>>
          ELSE /\ engine_file' = engine_opt
               /\ boot' = [opt |-> engine_opt,
                           res |-> IF engine_opt \in {"kvs", "sled"} THEN "serving" ELSE "panic",
                           opened |-> IF engine_opt \in {"kvs", "sled"} THEN engine_opt ELSE "",
                           n |-> boot.n + 1]
               /\ sled_mem' = IF engine_opt = "sled" THEN sled_disk ELSE sled_mem
               /\ IF engine_opt = "kvs"
                  THEN Install(Open(files, mtime_order)) /\ poisoned' = FALSE
                  ELSE UNCHANGED kvvars
    /\ UNCHANGED <<sled_disk, sled_acked, netvars, histvars, concvars, poolvars>>

\* SledKvsEngine::get
SledGetIn(db, k) == IF k \in DOMAIN db THEN db[k] ELSE None

\* SledKvsEngine::set of src/src/kvs_sled.rs, a file lib.rs does not
\* compile: insert, then flush
SledSet_Flush(k, v) ==
    /\ boot.opened = "sled"
    /\ sled_mem' = Put(sled_mem, k, v)
    /\ sled_disk' = sled_mem'
    /\ sled_acked' = [sled_acked EXCEPT ![k] = v]
    /\ UNCHANGED <<engine_file, boot, netvars, kvvars, histvars, concvars, poolvars>>

\* SledKvsEngine::set of src/src/sled.rs: insert; the flush is commented out
SledSet(k, v) ==
    /\ boot.opened = "sled"
    /\ sled_mem' = Put(sled_mem, k, v)
    /\ sled_acked' = [sled_acked EXCEPT ![k] = v]
    /\ UNCHANGED <<engine_file, boot, sled_disk, netvars, kvvars, histvars, concvars, poolvars>>

\* SledKvsEngine::remove: remove, flush, then Ok if the key was there
SledRemove(k) ==
    /\ boot.opened = "sled"
    /\ sled_mem' = Del(sled_mem, k)
    /\ sled_disk' = sled_mem'
    /\ sled_acked' = IF k \in DOMAIN sled_mem THEN [sled_acked EXCEPT ![k] = None]
                     ELSE sled_acked
    /\ UNCHANGED <<engine_file, boot, netvars, kvvars, histvars, concvars, poolvars>>

\* sled writes its buffer out in the background
SledFlush ==
    /\ boot.opened = "sled"
    /\ sled_disk # sled_mem
    /\ sled_disk' = sled_mem
    /\ UNCHANGED <<engine_file, boot, sled_mem, sled_acked, netvars, kvvars, histvars,
                   concvars, poolvars>>

\* the server process is killed: what was not flushed is gone
Kill ==
    /\ boot.opened # ""
    /\ boot' = [boot EXCEPT !.res = "killed", !.opened = ""]
    /\ sled_mem' = EmptyMap
    /\ UNCHANGED <<engine_file, sled_disk, sled_acked, netvars, kvvars, histvars, concvars,
                   poolvars>>

NextBackend ==
    \/ \E engine_opt \in EngineOpts : Startup(engine_opt)
    \/ \E k \in Keys, v \in SledVals : SledSet(k, v)
    \/ \E k \in Keys : SledRemove(k)
    \/ SledFlush
    \/ Kill

Init ==
    /\ files = EmptyDir.files
    /\ mtime_order = EmptyDir.mtime_order
    /\ log_index = EmptyDir.log_index
    /\ log_file_readers = EmptyDir.log_file_readers
    /\ active_log = EmptyDir.active_log
    /\ log_file_paths = EmptyDir.log_file_paths
    /\ log_file_counter = EmptyDir.log_file_counter
    /\ bytes_for_compaction = EmptyDir.bytes_for_compaction
    /\ poisoned = FALSE
    /\ ret = Call("open", NoVal, NoVal, Ok)
    /\ model = [k \in Keys |-> None]
    /\ ops = 0
    /\ smalls = 0
    /\ lock = 0
    /\ thr = [t \in Threads |-> Idle]
    /\ shared_injector = <<>>
    /\ chan = [c \in 1..PoolSize |-> NewChannel(c)]
    /\ wk = [t \in 1..MaxThreads |-> IF t <= PoolSize THEN NewWorker(t) ELSE NoWorker]
    /\ nthreads = PoolSize
    /\ jobs = <<>>
    /\ runs = [j \in 1..MaxJobs |-> 0]
    /\ fin = {}
    /\ handed = {}
    /\ alive = TRUE
    /\ srv = [pc |-> "accept", term |-> 0, stops |-> 0]
    /\ conn = [c \in 1..MaxConns |-> NoConn]
    /\ smodel = [k \in SrvKeys |-> Unset]
    /\ engine_file = NotFound
    /\ boot = [opt |-> "", res |-> "", opened |-> "", n |-> 0]
    /\ sled_mem = EmptyMap
    /\ sled_disk = EmptyMap
    /\ sled_acked = [k \in Keys |-> None]

\* ------------------------------------------------------------------------
\* One client: every call runs from lock acquisition to return in one step
\* ------------------------------------------------------------------------
\* some segment holds a torn frame
HasTorn == \E p \in DOMAIN files : \E i \in 1..Len(files[p]) : files[p][i].t = "Torn"

\* the calls a behaviour may still make
CanCall == ops < (IF HasTorn THEN MaxCrashOps
                  ELSE IF smalls = 0 THEN MaxDeepOps ELSE MaxOps)
CanSet(v) == IF v = SmallVal THEN ops < MaxOps /\ smalls < MaxSmall ELSE CanCall

Get(k) ==
    /\ ret' = Call("get", k, NoVal, IF poisoned THEN LockError ELSE GetIn(Cur, k))
    /\ poisoned' = (poisoned \/ GetIn(Cur, k) = Panic)
    /\ UNCHANGED <<files, mtime_order, log_index, log_file_readers, active_log,
                   log_file_paths, log_file_counter, bytes_for_compaction,
                   model, ops, smalls, concvars, poolvars, extvars>>

Set(k, v) ==
    /\ CanSet(v)
    /\ IF poisoned
       THEN /\ ret' = Call("set", k, v, LockError)
            /\ UNCHANGED <<kvvars, model, ops, smalls>>
       ELSE /\ LET e == SetIn(Cur, k, v)
               IN /\ Install(e)
                  /\ ret' = Call("set", k, v, IF e.err THEN Io ELSE Ok)
            /\ model' = [model EXCEPT ![k] = v]
            /\ ops' = ops + 1
            /\ smalls' = IF v = SmallVal THEN smalls + 1 ELSE smalls
            /\ UNCHANGED poisoned
    /\ UNCHANGED <<concvars, poolvars, extvars>>

\* a remove that appends the tombstone before it looks the key up
Remove_TombstoneFirst(k) ==
    /\ CanCall
    /\ LET e == RemoveWrite(RemoveEntry(Cur, k), k, 0)
       IN /\ Install(e)
          /\ ret' = Call("remove", k, NoVal,
                         IF k \in DOMAIN log_index THEN Ok ELSE NonExistentKey)
    /\ model' = [model EXCEPT ![k] = None]
    /\ ops' = ops + 1
    /\ UNCHANGED <<poisoned, smalls, concvars, poolvars, extvars>>

Remove(k) ==
    /\ CanCall
    /\ IF poisoned \/ k \notin DOMAIN log_index
       THEN /\ ret' = Call("remove", k, NoVal,
                           IF poisoned THEN LockError ELSE NonExistentKey)
            /\ UNCHANGED <<kvvars, model, ops, smalls>>
       ELSE /\ LET e == RemoveIn(Cur, k)
               IN /\ Install(e)
                  /\ ret' = Call("remove", k, NoVal, IF e.err THEN Io ELSE Ok)
            /\ model' = [model EXCEPT ![k] = None]
            /\ ops' = ops + 1
            /\ UNCHANGED <<poisoned, smalls>>
    /\ UNCHANGED <<concvars, poolvars, extvars>>

\* the last handle is dropped and the directory is opened again
Reopen ==
    /\ CanCall
    /\ LET e == Open(files, mtime_order)
       IN /\ Install(e)
          /\ model' = View(e)
    /\ poisoned' = FALSE
    /\ ret' = Call("open", NoVal, NoVal, Ok)
    /\ ops' = ops + 1
    /\ UNCHANGED <<smalls, concvars, poolvars, extvars>>

Next ==
    \/ \E k \in Keys : Get(k)
    \/ \E k \in Keys, v \in Values : Set(k, v)
    \/ \E k \in Keys : Remove(k)
    \/ Reopen

Spec == Init /\ [][Next]_vars

SpecServer == Init /\ [][NextServer]_vars

\* the acceptor and the workers of the pool are threads that keep taking
\* steps, and a client that has sent its request reads the reply; nothing
\* makes a client connect. Handle(c) is enabled exactly while the job of c
\* is queued and every Handle(c) step ends that, so weak fairness of
\* Handle(c) is the formula []<>(conn[c].st # "queued")
SpecServerFair ==
    /\ SpecServer
    /\ WF_vars(AcceptorStep)
    /\ \A c \in 1..MaxConns :
          /\ []<>(conn[c].st # "queued")
          /\ WF_vars(Dropped(c))
          /\ WF_vars(Recv(c))

SpecBackend == Init /\ [][NextBackend]_vars

SpecPool == Init /\ [][NextPool]_vars

\* the pool is never dropped
NextPoolAlive ==
    \/ \E kind \in {"ok", "panic"} : Spawn(kind)
    \/ \E t \in 1..MaxThreads : Iterate(t)
    \/ \E t \in 1..MaxThreads : Finish(t)
    \/ \E t \in 1..MaxThreads : Unwind(t)

\* worker threads are operating-system threads: each keeps taking steps, and
\* every job ends
SpecPoolFair ==
    Init /\ [][NextPoolAlive]_vars /\ \A t \in 1..MaxThreads : WF_vars(WorkerStep(t))

\* the pool may be dropped at any time; the worker threads keep taking steps
\* and every job ends
SpecPoolDropFair ==
    Init /\ [][NextPool]_vars /\ \A t \in 1..MaxThreads : WF_vars(WorkerStep(t))

\* ------------------------------------------------------------------------
\* A crash in the middle of an append
\* ------------------------------------------------------------------------
\* lengths of the part of a frame that reached the file: the length prefix
\* only, or everything but the last byte
TornLens(r) == {4, FrameSize(r) - 1}

\* The process dies inside serialize_and_write of set(k, v) when n bytes of
\* the frame have been written to the active segment; the directory is then
\* opened again.
Crash(k, v, n) ==
    /\ ~poisoned
    /\ ~HasTorn
    /\ ops < MaxCrashOps - 1
    /\ CanSet(v)
    /\ LET e1 == SetupActiveLogFile(Cur)
           p == e1.active_log.path
           fs == [e1.files EXCEPT ![p] = Append(@, TornRec(n))]
           e == Open(fs, Touch(e1.mtime_order, p))
       IN /\ Install(e)
          /\ model' = View(e)
    /\ poisoned' = FALSE
    /\ ret' = Call("crash", k, v, Ok)
    /\ ops' = ops + 1
    /\ UNCHANGED <<smalls, concvars, poolvars, extvars>>

NextCrash ==
    \/ Next
    \/ \E k \in Keys, v \in Values : \E n \in TornLens(SetRec(k, v)) : Crash(k, v, n)

SpecCrash == Init /\ [][NextCrash]_vars

\* ------------------------------------------------------------------------
\* I/O errors inside compact
\* ------------------------------------------------------------------------
\* the calls of compact that can return an I/O error to set and remove: the
\* open of the segment to scan, and fs::remove_file
FaultPoints == {"open", "remove_file"}

\* operations in a behaviour with I/O errors
MaxIoOps == 4

\* compact returning the error of the call `at`: nothing is done before the
\* open; before remove_file the scan has run and the reader is removed
CompactFails(e, at) ==
    IF at = "open" THEN e
    ELSE LET p == e.log_file_paths[1]
             e1 == CompactScan(e, p, 1)
         IN [e1 EXCEPT !.log_file_readers = e1.log_file_readers \ {p}]

\* set(k, v) whose compact returns an I/O error
SetIoError(k, v, at) ==
    /\ CanSet(v)
    /\ ops < MaxIoOps
    /\ ~poisoned
    /\ \E cur \in {Cur} : \E w \in {SerializeAndWrite(cur, SetRec(k, v))} :
       \E pre \in {IndexInsert(w.e, k, w.loc)} :
          /\ pre.bytes_for_compaction > COMPACT_AFTER_BYTE_SIZE
          /\ Len(pre.log_file_paths) > 1
          /\ pre.log_file_paths[1] \in DOMAIN pre.files
          /\ \E post \in {CompactFails(pre, at)} : Install(post)
    /\ ret' = Call("set", k, v, Io)
    /\ ops' = ops + 1
    /\ smalls' = IF v = SmallVal THEN smalls + 1 ELSE smalls
    /\ UNCHANGED <<model, poisoned, concvars, poolvars, extvars>>

\* remove(k) of a present key whose compact returns an I/O error
RemoveIoError(k, at) ==
    /\ CanCall
    /\ ops < MaxIoOps
    /\ ~poisoned
    /\ k \in DOMAIN log_index
    /\ \E cur \in {Cur} : \E un \in {RemoveEntry(cur, k)} :
       \E pre \in {RemoveWrite(un, k, log_index[k][3])} :
          /\ pre.bytes_for_compaction > COMPACT_AFTER_BYTE_SIZE
          /\ Len(pre.log_file_paths) > 1
          /\ pre.log_file_paths[1] \in DOMAIN pre.files
          /\ \E post \in {CompactFails(pre, at)} : Install(post)
    /\ ret' = Call("remove", k, NoVal, Io)
    /\ ops' = ops + 1
    /\ UNCHANGED <<model, smalls, poisoned, concvars, poolvars, extvars>>

NextIo ==
    \/ ops < MaxIoOps /\ Next
    \/ \E k \in Keys, v \in Values, at \in FaultPoints : SetIoError(k, v, at)
    \/ \E k \in Keys, at \in FaultPoints : RemoveIoError(k, at)

SpecIo == Init /\ [][NextIo]_vars

\* ------------------------------------------------------------------------
\* Concurrent clients: every clone of the handle shares one RwLock; a call
\* takes the write guard, runs its steps and drops the guard on return
\* ------------------------------------------------------------------------
InBody(t) == thr[t].pc \notin {"idle", "lock"}

\* a client thread calls get, set or remove on its clone of the handle
Invoke(t, op, k, v) ==
    /\ thr[t].pc = "idle"
    /\ ops < MaxConcOps
    /\ thr' = [thr EXCEPT ![t] = [Idle EXCEPT !.pc = "lock", !.op = op,
                                              !.key = k, !.val = v]]
    /\ ops' = ops + 1
    /\ UNCHANGED <<kvvars, lock, ret, model, smalls, poolvars, extvars>>

\* a write() that does not wait for the guard to be free
Acquire_NoWait(t) ==
    /\ thr[t].pc = "lock"
    /\ lock' = t
    /\ thr' = [thr EXCEPT ![t].pc = IF poisoned THEN "unlock" ELSE thr[t].op,
                          ![t].res = IF poisoned THEN LockError ELSE NoVal,
                          ![t].expect = model[thr[t].key]]
    /\ UNCHANGED <<kvvars, histvars, poolvars, extvars>>

\* a get that takes the guard although a writer holds it
Acquire_SharedGet(t) ==
    /\ thr[t].pc = "lock"
    /\ lock = 0 \/ thr[t].op = "get"
    /\ lock' = t
    /\ thr' = [thr EXCEPT ![t].pc = IF poisoned THEN "unlock" ELSE thr[t].op,
                          ![t].res = IF poisoned THEN LockError ELSE NoVal,
                          ![t].expect = model[thr[t].key]]
    /\ UNCHANGED <<kvvars, histvars, poolvars, extvars>>

\* self.0.write(): blocks until no other thread holds the guard
Acquire(t) ==
    /\ thr[t].pc = "lock"
    /\ lock = 0
    /\ lock' = t
    /\ thr' = [thr EXCEPT ![t].pc = IF poisoned THEN "unlock" ELSE thr[t].op,
                          ![t].res = IF poisoned THEN LockError ELSE NoVal,
                          ![t].expect = model[thr[t].key]]
    /\ UNCHANGED <<kvvars, histvars, poolvars, extvars>>

\* get: index lookup, reader seek and decode
GetLookup(t) ==
    /\ thr[t].pc = "get"
    /\ thr' = [thr EXCEPT ![t].pc = "unlock", ![t].res = GetIn(Cur, thr[t].key)]
    /\ poisoned' = (GetIn(Cur, thr[t].key) = Panic)
    /\ UNCHANGED <<files, mtime_order, log_index, log_file_readers, active_log,
                   log_file_paths, log_file_counter, bytes_for_compaction,
                   lock, histvars, poolvars, extvars>>

\* set: serialize_and_write
SetAppend(t) ==
    /\ thr[t].pc = "set"
    /\ LET w == SerializeAndWrite(Cur, SetRec(thr[t].key, thr[t].val))
       IN /\ Install(w.e)
          /\ thr' = [thr EXCEPT ![t].pc = "index", ![t].loc = w.loc]
    /\ UNCHANGED <<poisoned, lock, histvars, poolvars, extvars>>

\* set: log_index.insert and the meter
SetIndex(t) ==
    /\ thr[t].pc = "index"
    /\ Install(IndexInsert(Cur, thr[t].key, thr[t].loc))
    /\ thr' = [thr EXCEPT ![t].pc = "compact", ![t].res = Ok]
    /\ UNCHANGED <<poisoned, lock, histvars, poolvars, extvars>>

\* remove: the index entry is looked up and taken out
RemoveLookup(t) ==
    /\ thr[t].pc = "remove"
    /\ IF thr[t].key \in DOMAIN log_index
       THEN /\ Install(RemoveEntry(Cur, thr[t].key))
            /\ thr' = [thr EXCEPT ![t].pc = "tombstone",
                                  ![t].loc = log_index[thr[t].key]]
       ELSE /\ thr' = [thr EXCEPT ![t].pc = "unlock", ![t].res = NonExistentKey]
            /\ UNCHANGED <<files, mtime_order, log_index, log_file_readers,
                           active_log, log_file_paths, log_file_counter,
                           bytes_for_compaction>>
    /\ UNCHANGED <<poisoned, lock, histvars, poolvars, extvars>>

\* remove: the tombstone is appended and the meter updated
RemoveAppend(t) ==
    /\ thr[t].pc = "tombstone"
    /\ Install(RemoveWrite(Cur, thr[t].key, thr[t].loc[3]))
    /\ thr' = [thr EXCEPT ![t].pc = "compact", ![t].res = Ok]
    /\ UNCHANGED <<poisoned, lock, histvars, poolvars, extvars>>

\* set and remove: shared.compact()
CompactStep(t) ==
    /\ thr[t].pc = "compact"
    /\ LET e == Compact(Cur)
       IN /\ Install(e)
          /\ thr' = [thr EXCEPT ![t].pc = "unlock",
                                ![t].res = IF e.err THEN Io ELSE Ok]
    /\ UNCHANGED <<poisoned, lock, histvars, poolvars, extvars>>

\* the call returns and the guard is dropped
Return(t) ==
    /\ thr[t].pc = "unlock"
    /\ lock' = IF lock = t THEN 0 ELSE lock
    /\ ret' = Call(thr[t].op, thr[t].key, thr[t].val, thr[t].res)
    /\ model' = IF thr[t].res # Ok THEN model
                ELSE IF thr[t].op = "set" THEN [model EXCEPT ![thr[t].key] = thr[t].val]
                ELSE IF thr[t].op = "remove" THEN [model EXCEPT ![thr[t].key] = None]
                ELSE model
    /\ thr' = [thr EXCEPT ![t].pc = "idle"]
    /\ UNCHANGED <<kvvars, ops, smalls, poolvars, extvars>>

NextConc ==
    \/ \E t \in Threads, k \in Keys : Invoke(t, "get", k, NoVal)
    \/ \E t \in Threads, k \in Keys, v \in Values : Invoke(t, "set", k, v)
    \/ \E t \in Threads, k \in Keys : Invoke(t, "remove", k, NoVal)
    \/ \E t \in Threads : Acquire(t)
    \/ \E t \in Threads : GetLookup(t)
    \/ \E t \in Threads : SetAppend(t)
    \/ \E t \in Threads : SetIndex(t)
    \/ \E t \in Threads : RemoveLookup(t)
    \/ \E t \in Threads : RemoveAppend(t)
    \/ \E t \in Threads : CompactStep(t)
    \/ \E t \in Threads : Return(t)

SpecConc == Init /\ [][NextConc]_vars

ViewNow == View(Cur)

\* ------------------------------------------------------------------------
\* Properties of the engine under one client
\* ------------------------------------------------------------------------

\* C1: in every state of one engine, get(k) gives for every key k the value
\* of the last set(k, v) not followed by a successful remove(k), and None
\* when there is none (model is changed at key k only by calls on k); the
\* result of the last get call is that value.
C1_GetReturnsLastSet ==
    /\ \A k \in Keys : GetIn(Cur, k) = model[k]
    /\ (ret.op = "get" /\ ret.res # LockError) => ret.res = model[ret.key]

\* a get returned a value that compaction had copied out of 0.log
C1_Witness ==
    /\ ret.op = "get"
    /\ ret.res = SmallVal
    /\ 0 \notin DOMAIN files
    /\ \E k \in Keys : model[k] = BigVal

\* C2: dropping the engine and opening the directory again gives an engine
\* in which get(k) returns for every key what it returned before the drop.
C2_ReopenPreservesGet ==
    [][ret'.op = "open" => ViewNow' = ViewNow]_vars

\* C3: remove(k) of a key that is not in the index fails with
\* NonExistentKey and changes nothing: no record appended, index, segment
\* list, counter and meter as before, no compaction, get(k) still None.
C3_RemoveAbsentIsNoOp ==
    [][(ret'.op = "remove" /\ ret'.key \notin DOMAIN log_index /\ ~poisoned)
         => /\ ret'.res = NonExistentKey
            /\ UNCHANGED kvvars
            /\ \A k \in Keys : k = ret'.key => ViewNow'[k] = None]_vars

\* remove of an absent key failed while a compaction was due
C3_Witness ==
    /\ ret.op = "remove"
    /\ ret.res = NonExistentKey
    /\ bytes_for_compaction > COMPACT_AFTER_BYTE_SIZE
    /\ Len(log_file_paths) > 1

\* ------------------------------------------------------------------------
\* Properties of the engine under concurrent clients
\* ------------------------------------------------------------------------

\* C4: mutations take effect in lock acquisition order: a get returns, for
\* its key, the value of the last set or remove that released the lock
\* before the get acquired it.
C4_GetSeesLastReleasedSet ==
    \A t \in Threads :
        (thr[t].pc = "unlock" /\ thr[t].op = "get") => thr[t].res = thr[t].expect

\* a get returned the value of a set made by the other thread, after a
\* compaction
C4_Witness ==
    \E t \in Threads :
        /\ thr[t].pc = "unlock"
        /\ thr[t].op = "get"
        /\ thr[t].res \in Values
        /\ ret.op = "set"
        /\ 0 \notin DOMAIN files

\* C5: a call holds the write guard from before its first access to the
\* engine state until it returns, compaction included, so the steps of two
\* calls never interleave.
C5_StepsUnderExclusiveLock ==
    /\ \A t \in Threads : InBody(t) => lock = t
    /\ \A t, u \in Threads : (InBody(t) /\ InBody(u)) => t = u

\* one thread is about to compact while the other waits for the guard
C5_Witness ==
    \E t, u \in Threads :
        /\ thr[t].pc = "compact"
        /\ bytes_for_compaction > COMPACT_AFTER_BYTE_SIZE
        /\ Len(log_file_paths) > 1
        /\ thr[u].pc = "lock"

\* ------------------------------------------------------------------------
\* Properties of recovery after a crash
\* ------------------------------------------------------------------------
\* C6: open on a segment that ends with a torn frame reports no error and
\* gives the contents before the interrupted append, and from then on the
\* engine behaves as if the torn frame had been cut off: what get returns
\* is the same after the directory is opened again.
C6_TornFrameIsTruncated ==
    [][/\ ret'.op = "crash" => (ret'.res = Ok /\ ViewNow' = ViewNow)
       /\ (ret'.op = "open" /\ HasTorn) => ViewNow' = ViewNow]_vars

\* ------------------------------------------------------------------------
\* Properties of the thread pool
\* ------------------------------------------------------------------------
\* the places of the queues that hold job j: 0 names the shared queue, t the
\* local queue of thread t
Places(j) ==
    {<<0, i>> : i \in {n \in 1..Len(shared_injector) : shared_injector[n] = j}}
    \cup UNION {{<<t, i>> : i \in {n \in 1..Len(wk[t].local) : wk[t].local[n] = j}}
                : t \in 1..MaxThreads}

Unwinding == {t \in 1..MaxThreads : wk[t].pc = "unwinding"}

Workers == {t \in 1..MaxThreads : Live(t)}

\* C7: a job passed to spawn is never invoked twice, and a job that has not
\* been invoked waits in exactly one queue (the shared one, or the local
\* queue it was stolen into, or the queue of the replacement of a worker
\* that panicked): no job is lost or duplicated on the way.
C7_InvokedAtMostOnce ==
    \A j \in 1..Len(jobs) :
        /\ runs[j] <= 1
        /\ Cardinality(Places(j)) + runs[j] = 1

\* a job that was handed to a replacement is being invoked by a replacement
C7_Witness ==
    \E j \in handed : \E t \in (PoolSize + 1)..MaxThreads :
        wk[t].pc = "job" /\ wk[t].job = j /\ runs[j] = 1

\* C8: in a pool that is never dropped every spawned job is eventually run
\* to completion, whatever jobs panicked before or after it.
C8_EveryJobCompletes ==
    \A j \in 1..MaxJobs : (Len(jobs) >= j) ~> (j \in fin)

\* after a job that panicked, PoolSize later jobs completed, one of them
\* taken over from the local queue of the panicking worker
C8_Witness ==
    \E p \in fin :
        /\ jobs[p] = "panic"
        /\ Cardinality({j \in fin : j > p}) >= PoolSize
        /\ \E j \in fin \cap handed : j > p

\* C9: while the pool is alive the threads able to run jobs, together with
\* the threads that are unwinding, are as many as new(threads) was given.
C9_ThreadCountInvariant ==
    alive => Cardinality(Workers) + Cardinality(Unwinding) = PoolSize

\* every job panicked, every panic was answered by a replacement
C9_Witness ==
    /\ alive
    /\ Unwinding = {}
    /\ nthreads = PoolSize + MaxJobs
    /\ Cardinality(Workers) = PoolSize

\* C10: spawn is enabled in every state of a live pool, and a spawn does
\* nothing but append the job to the shared queue.
C10_SpawnNeverBlocks ==
    /\ [](alive /\ Len(jobs) < MaxJobs => ENABLED (\E kind \in {"ok", "panic"} : Spawn(kind)))
    /\ [][Len(jobs') > Len(jobs) =>
            /\ shared_injector' = Append(shared_injector, Len(jobs'))
            /\ UNCHANGED <<chan, wk, nthreads, runs, fin, handed, alive>>]_vars

\* a job was spawned while no worker was waiting for one
C10_Witness ==
    /\ alive
    /\ shared_injector # <<>>
    /\ \A t \in 1..MaxThreads : wk[t].pc # "loop"
    /\ Unwinding # {}

\* ------------------------------------------------------------------------
\* Claims about the server and the client
\* ------------------------------------------------------------------------
\* C11: a GET:k sent after SET:k:v was answered OK, and handled with no
\* later reply that changed k, is answered OK: with the base64 encoding of v; a GET of a
\* key no SET was answered for is answered OK:Tk9ORQ==.
C11_SetThenGetRoundTrip ==
    \A c \in 1..MaxConns :
        /\ Handled(c) /\ IsGet(conn[c].req)
        /\ conn[c].sent = conn[c].expect /\ conn[c].expect # None
        =>
            conn[c].reply = OK \o <<COLON>> \o
                Base64Encode(IF conn[c].expect = Unset THEN NONE
                             ELSE Utf8(conn[c].expect))

\* the reply a GET of key k would get from the engine as the step leaves it
GetReplyAfter(k) ==
    HandleResponse(HandleIncoming(Cur, poisoned, Serialize(Command("Get", k, "")) \o <<LF>>).out,
                   HandleIncoming(Cur, poisoned, Serialize(Command("Get", k, "")) \o <<LF>>).body)'

\* C12: the handler of REMOVE:k answers OK: with an empty body when k is in
\* the engine, and a GET of k is then answered OK:Tk9ORQ==; it answers ERR:
\* with "Key not found" and leaves the engine as it was when k is absent.
C12_RemoveReplies ==
    [][\A c \in 1..MaxConns : \A k \in SrvKeys :
          /\ conn[c].st = "queued" /\ Handled(c)'
          /\ IsRemove(conn[c].req) /\ k = KeyOf(conn[c].req)
          => IF k \in DOMAIN log_index
             THEN /\ conn'[c].reply = OK \o <<COLON>>
                  /\ GetReplyAfter(k) = OK \o <<COLON>> \o Base64Encode(NONE)
             ELSE /\ conn'[c].reply = ERR \o <<COLON>> \o Base64Encode(KeyNotFound)
                  /\ UNCHANGED kvvars]_vars

\* C13: for every line the server read whose command is not EXIT, the job
\* of the connection returned without unwinding its worker and wrote one
\* reply whose tag is OK or ERR.
C13_ExactlyOneReply ==
    \A c \in 1..MaxConns :
        Handled(c) /\ ReadLine(conn[c].req).ok /\ Tokens(conn[c].req)[1] # EXIT =>
            /\ conn[c].out \in {"Ok", "Err"}
            /\ Len(Split(conn[c].reply, COLON)) = 2
            /\ Split(conn[c].reply, COLON)[1] \in {OK, ERR}

\* C14: a line whose first token is none of GET, SET, REMOVE and EXIT is
\* answered ERR: with "Command not recognized", and the handler makes no
\* call to the engine.
C14_UnknownCommand ==
    \A c \in 1..MaxConns :
        /\ Handled(c) /\ ReadLine(conn[c].req).ok
        /\ Tokens(conn[c].req)[1] \notin {GET, SET, REMOVE, EXIT}
        => /\ conn[c].reply = ERR \o <<COLON>> \o Base64Encode(CommandNotRecognized)
           /\ conn[c].eops = 0

\* C15: once Terminate was sent, by EXIT or by stop(), the acceptor thread
\* eventually leaves its loop, whether or not another client connects.
C15_AcceptorExits == (srv.term > 0) ~> (srv.pc = "exited")

\* the request of connection c holds bytes after its first line
HasMoreLines(c) == Len(conn[c].req) > Len(ReadLine(conn[c].req).line)

\* C16: the job of a connection makes at most one engine call and the
\* connection is closed when it ends, whatever its outcome, so every client
\* that sent a request gets to the end of the stream.
C16_OneCommandPerConnection ==
    /\ [](\A c \in 1..MaxConns :
              /\ conn[c].eops <= 1
              /\ conn[c].out # "-" => conn[c].st \in {"closed", "done"})
    /\ \A c \in 1..MaxConns : (conn[c].st \in {"backlog", "queued"}) ~> (conn[c].st = "done")

\* a client that sent two lines has read to the end of the stream, and one
\* engine call was made for its connection
C16_Witness ==
    \E c \in 1..MaxConns :
        /\ conn[c].st = "done" /\ HasMoreLines(c)
        /\ conn[c].out = "Ok" /\ conn[c].eops = 1
        /\ "a" \in DOMAIN log_index

\* C17: when the server wrote a reply, KvsClient::send returns Ok exactly
\* when the reply is tagged OK and fails with ClientError otherwise, and the
\* text it returns or carries is the body the server encoded.
C17_ClientDecodesReply ==
    \A c \in 1..MaxConns :
        conn[c].st = "done" /\ conn[c].out \in {"Ok", "Err"} =>
            /\ conn[c].res.err = "" <=> conn[c].out = "Ok"
            /\ conn[c].res.err = "ClientError" <=> conn[c].out = "Err"
            /\ conn[c].res.body = conn[c].body

\* one client was returned the NONE of a GET, another got the ClientError
\* of a REMOVE of an absent key
C17_Witness ==
    \E c, d \in 1..MaxConns :
        /\ conn[c].st = "done" /\ conn[c].out = "Ok"
        /\ conn[c].res = [err |-> "", body |-> NONE]
        /\ conn[d].st = "done" /\ conn[d].out = "Err"
        /\ conn[d].res = [err |-> "ClientError", body |-> KeyNotFound]

\* ------------------------------------------------------------------------
\* Claims about the sled adapter and the start of the server
\* ------------------------------------------------------------------------
\* C18: what set and remove of the sled adapter left when they returned Ok
\* is what the database answers after the process was killed and the
\* database is opened again.
C18_AckedSurvivesCrash ==
    boot.opened = "sled" => \A k \in Keys : SledGetIn(sled_mem, k) = sled_acked[k]

\* C19: a start that finds no `engine` file writes the chosen name into it;
\* a start whose choice differs from the name in the file ends with the
\* error "engine mismatch", opens no store, accepts no connection and
\* leaves the file as it was; no start changes a name once recorded.
C19_EngineFile ==
    [][boot'.n # boot.n =>
         /\ engine_file = NotFound => engine_file' = boot'.opt
         /\ engine_file # NotFound => engine_file' = engine_file
         /\ engine_file # NotFound /\ boot'.opt # engine_file =>
                /\ boot'.res = "engine mismatch"
                /\ boot'.opened = ""
                /\ UNCHANGED <<sled_mem, sled_disk, kvvars, netvars>>]_vars

\* a directory that recorded sled was started with kvs and refused
C19_Witness ==
    /\ engine_file = "sled"
    /\ boot.opt = "kvs" /\ boot.res = "engine mismatch" /\ boot.opened = ""
    /\ sled_disk # EmptyMap

\* ------------------------------------------------------------------------
\* Claims about the index of the log engine
\* ------------------------------------------------------------------------
\* C20: every entry (k, (path, offset, length)) of the index names a segment
\* file that exists, in which a frame starts at offset, is length bytes long
\* and holds Set(k, v) for some v.
C20_IndexPointsAtSetFrames ==
    \A k \in DOMAIN log_index :
        /\ log_index[k][1] \in DOMAIN files
        /\ FrameAt(files[log_index[k][1]], log_index[k][2]) # 0
        /\ files[log_index[k][1]][FrameAt(files[log_index[k][1]], log_index[k][2])].t = "Set"
        /\ files[log_index[k][1]][FrameAt(files[log_index[k][1]], log_index[k][2])].k = k
        /\ FrameSize(files[log_index[k][1]][FrameAt(files[log_index[k][1]], log_index[k][2])])
               = log_index[k][3]

\* the directory was opened again after a compaction had deleted 0.log, and
\* an entry of the index points behind the first frame of its segment
C20_Witness ==
    /\ ret.op = "open" /\ ops > 0
    /\ 0 \notin DOMAIN files
    /\ \E k \in DOMAIN log_index : log_index[k][2] > 0

\* ------------------------------------------------------------------------
\* Claims about compaction, rotation and the meter
\* ------------------------------------------------------------------------
\* a step of the one-client model in which set or remove went as far as
\* its call of compact
MutStep == ops' = ops + 1 /\ ret'.op \in {"set", "remove"}

\* the engine as that call of compact finds it: after the append and the
\* update of the index and of the meter
PreCompact ==
    IF ret'.op = "set"
    THEN IndexInsert(SerializeAndWrite(Cur, SetRec(ret'.key, ret'.val)).e, ret'.key,
                     SerializeAndWrite(Cur, SetRec(ret'.key, ret'.val)).loc)
    ELSE RemoveWrite(RemoveEntry(Cur, ret'.key), ret'.key, log_index[ret'.key][3])

\* compact goes past its two early returns
CompactRuns(e) ==
    e.bytes_for_compaction > COMPACT_AFTER_BYTE_SIZE /\ Len(e.log_file_paths) > 1

\* C21: when compact has run on the oldest segment P, no index entry refers
\* to P, and get returns for every key what it returned when compact began.
C21_CompactionPreservesContents ==
    [][MutStep =>
         \A pre \in {PreCompact} :
             CompactRuns(pre) =>
                 /\ \A k \in DOMAIN log_index' : log_index'[k][1] # pre.log_file_paths[1]
                 /\ \A k \in Keys : GetIn(Cur', k) = GetIn(pre, k)]_vars

\* a compaction has copied a live record forward: the segment 0.log is gone
\* and a value written to it is still returned
C21_Witness ==
    /\ ret.op \in {"set", "remove"}
    /\ 0 \notin DOMAIN files
    /\ \E k \in Keys : model[k] = SmallVal /\ GetIn(Cur, k) = SmallVal

\* the sequence holds no element twice
NoDup(s) == \A i, j \in 1..Len(s) : s[i] = s[j] => i = j

\* C22: the path list holds no path twice, and the segment a rotation makes
\* active is a file that did not exist before it.
C22_NoSegmentTwice ==
    /\ [](NoDup(log_file_paths))
    /\ [][MutStep /\ log_file_counter' > log_file_counter =>
            \A c \in (log_file_counter + 1)..log_file_counter' : c \notin DOMAIN files]_vars

\* C23: log_file_counter is greater than the number in the name of every
\* segment file of the directory.
C23_CounterAboveSegments == \A p \in DOMAIN files : log_file_counter > p

\* C24: the path of the active segment is the last element of log_file_paths,
\* and that file exists in the directory.
C24_ActiveIsLastAndExists ==
    /\ Len(log_file_paths) > 0
    /\ log_file_paths[Len(log_file_paths)] = active_log.path
    /\ ~active_log.unlinked
    /\ active_log.path \in DOMAIN files

\* s is an initial part of t
IsPrefix(s, t) == Len(s) <= Len(t) /\ SubSeq(t, 1, Len(s)) = s

\* C25: a compaction that runs takes the front path P of log_file_paths and
\* ends with P out of the readers map, out of the directory and out of the
\* path list; every other reader and path stays, and every other file that
\* existed is still there with the same records, except that a segment the
\* writer appends to (the active one before or after) may have grown.
C25_CompactionRemovesOnlyOldest ==
    [][MutStep /\ ret'.res = Ok =>
         \A pre \in {PreCompact} :
             CompactRuns(pre) =>
                 \A P \in {pre.log_file_paths[1]} :
                     /\ P \notin DOMAIN files'
                     /\ P \notin log_file_readers'
                     /\ \A i \in 1..Len(log_file_paths') : log_file_paths'[i] # P
                     /\ (pre.log_file_readers \ {P}) \subseteq log_file_readers'
                     /\ IsPrefix(Without(pre.log_file_paths, P), log_file_paths')
                     /\ \A q \in DOMAIN pre.files \ {P} :
                            /\ q \in DOMAIN files'
                            /\ IsPrefix(pre.files[q], files'[q])
                            /\ q \notin {pre.active_log.path, active_log'.path}
                                   => files'[q] = pre.files[q]]_vars

\* C26: compact changes nothing (directory, index, readers, writer, path list,
\* counter and meter are as at its call) when the meter is at most
\* COMPACT_AFTER_BYTE_SIZE or the path list holds one path; otherwise it
\* compacts: the front segment is deleted and leaves the path list.
C26_CompactNoOpBelowThreshold ==
    [][MutStep /\ ret'.res = Ok =>
         \A pre \in {PreCompact} :
             /\ (pre.bytes_for_compaction <= COMPACT_AFTER_BYTE_SIZE
                   \/ Len(pre.log_file_paths) <= 1) => Cur' = pre
             /\ ~(pre.bytes_for_compaction <= COMPACT_AFTER_BYTE_SIZE
                   \/ Len(pre.log_file_paths) <= 1) =>
                    /\ pre.log_file_paths[1] \notin DOMAIN files'
                    /\ log_file_paths' # pre.log_file_paths]_vars
\* a remove left the meter above the threshold with one segment, and the set
\* of a small value that follows is appended to that segment and stays there
C26_Witness ==
    /\ ret.op = "set" /\ ret.val = SmallVal /\ ret.res = Ok
    /\ bytes_for_compaction > COMPACT_AFTER_BYTE_SIZE
    /\ Len(log_file_paths) = 1
    /\ Len(files[log_file_paths[1]]) >= 2

\* frame i of segment p is not the record the index idx has for its key
Obsolete(idx, p, recs, i) ==
    \/ recs[i].t # "Set"
    \/ recs[i].k \notin DOMAIN idx
    \/ idx[recs[i].k][1] # p
    \/ idx[recs[i].k][2] # OffsetOf(recs, i)

\* the meter b after every obsolete frame of recs, from frame i on, has taken
\* its own size off
RECURSIVE MeterLessObsolete(_, _, _, _, _)
MeterLessObsolete(b, idx, p, recs, i) ==
    IF i > Len(recs) THEN b
    ELSE MeterLessObsolete(IF Obsolete(idx, p, recs, i)
                           THEN SatSub(b, FrameSize(recs[i])) ELSE b,
                           idx, p, recs, i + 1)

\* C27: a compaction of segment P leaves the meter at its value at the call
\* less the frame size of every obsolete record of P (a Delete, a Set whose
\* key has no index entry, a Set whose entry points elsewhere), not below 0;
\* live records take nothing off.
C27_MeterReducedByObsoleteFrames ==
    [][MutStep /\ ret'.res = Ok =>
         \A pre \in {PreCompact} :
             CompactRuns(pre) =>
                 bytes_for_compaction' =
                     MeterLessObsolete(pre.bytes_for_compaction, pre.log_index,
                                       pre.log_file_paths[1],
                                       pre.files[pre.log_file_paths[1]], 1)]_vars

\* the bytes of the frames of segment p, from frame i on, that are not the
\* record the index has for their key
RECURSIVE ObsoleteBytes(_, _, _, _)
ObsoleteBytes(idx, p, recs, i) ==
    IF i > Len(recs) THEN 0
    ELSE (IF Obsolete(idx, p, recs, i) THEN FrameSize(recs[i]) ELSE 0)
           + ObsoleteBytes(idx, p, recs, i + 1)

\* the obsolete bytes of the segments of the set ps
RECURSIVE Reclaimable(_)
Reclaimable(ps) ==
    IF ps = {} THEN 0
    ELSE LET p == CHOOSE q \in ps : TRUE
         IN ObsoleteBytes(log_index, p, files[p], 1) + Reclaimable(ps \ {p})

\* C28: bytes_for_compaction is at least 0 and at most the bytes of the
\* obsolete frames stored in the segments other than the active one.
C28_MeterNeverOverstates ==
    /\ bytes_for_compaction >= 0
    /\ bytes_for_compaction <= Reclaimable(DOMAIN files \ {active_log.path})

\* what set and remove add to the meter: the size held by the index entry of
\* the key at the call, nothing when the key has no entry
Superseded(k) == IF k \in DOMAIN log_index THEN log_index[k][3] ELSE 0

\* C29: at the call of compact inside a set or a remove the meter is its value
\* before the operation plus the frame size of the index entry the operation
\* supersedes or removes, and plus nothing for a set of a key without entry;
\* where compact does not run, that is the meter the operation leaves.
C29_MeterGrowsBySupersededFrame ==
    [][MutStep /\ ret'.res = Ok =>
         \A pre \in {PreCompact} :
             /\ pre.bytes_for_compaction = bytes_for_compaction + Superseded(ret'.key)
             /\ ~CompactRuns(pre) =>
                    bytes_for_compaction' = bytes_for_compaction + Superseded(ret'.key)
             /\ ret'.key \in DOMAIN log_index =>
                    \A loc \in {log_index[ret'.key]} :
                        (loc[1] \in DOMAIN files /\ FrameAt(files[loc[1]], loc[2]) > 0) =>
                            loc[3] = FrameSize(files[loc[1]][FrameAt(files[loc[1]], loc[2])])]_vars
\* a set has put a large value over a small one in the only segment: the
\* meter holds the size of the small frame
C29_Witness ==
    /\ ret.op = "set" /\ ret.val # SmallVal /\ ret.res = Ok
    /\ Len(log_file_paths) = 1
    /\ bytes_for_compaction = FrameSize(SetRec(ret.key, SmallVal))

\* the record a set or a remove appends first
Appended == IF ret'.op = "set" THEN SetRec(ret'.key, ret'.val) ELSE DeleteRec(ret'.key)

\* C30: the first append of a set or a remove rotates exactly when the active
\* segment is longer than MAX_FILE_SIZE.  A rotation takes the name
\* log_file_counter + 1, which no file of the directory has, makes the counter
\* that number, registers its reader and puts its path last in the path list,
\* and the new segment holds the record alone; without rotation counter,
\* readers and path list stay and the record is the last of the active
\* segment.  Every file a step creates has a name above the old counter.
C30_RotateIffActiveTooLong ==
    [][MutStep /\ ret'.res = Ok =>
         \A pre \in {PreCompact} : \A c \in {log_file_counter + 1} :
             /\ ActiveLen(Cur) > MAX_FILE_SIZE =>
                    /\ c \notin DOMAIN files
                    /\ pre.log_file_counter = c
                    /\ pre.active_log.path = c /\ ~pre.active_log.unlinked
                    /\ c \in pre.log_file_readers
                    /\ pre.log_file_paths = Append(log_file_paths, c)
                    /\ pre.files = Put(files, c, <<Appended>>)
             /\ ActiveLen(Cur) <= MAX_FILE_SIZE =>
                    /\ pre.log_file_counter = log_file_counter
                    /\ pre.active_log = active_log
                    /\ pre.log_file_readers = log_file_readers
                    /\ pre.log_file_paths = log_file_paths
                    /\ pre.files = Put(files, active_log.path,
                                       Append(files[active_log.path], Appended))
             /\ \A p \in DOMAIN files' \ DOMAIN files :
                    p > log_file_counter /\ p <= log_file_counter']_vars

\* a frame that does not decode is followed by further frames in its segment
TornMidStream ==
    \E p \in DOMAIN files : \E i \in 1..(Len(files[p]) - 1) : files[p][i].t = "Torn"

\* C31: an open whose scan meets a frame that does not decode, with further
\* records behind it in the segment, does not succeed: the failure is reported.
C31_CorruptFrameIsReported ==
    [][(ret'.op = "open" /\ ops' = ops + 1 /\ TornMidStream) => ret'.res # Ok]_vars

\* connection c is taken from the backlog in this step
Accepted(c) == conn[c].st = "backlog" /\ conn'[c].st = "queued"

\* C32: the acceptor leaves its loop only at the try_recv that follows a
\* dispatch, and only with a Terminate in the channel; a Terminate stays in the
\* channel until then; a connection accepted with a Terminate in the channel
\* is the last one: the next step of the acceptor is its exit; after the exit
\* no connection is accepted.
C32_AtMostOneAcceptAfterTerminate ==
    /\ [][(srv.pc # "exited" /\ srv'.pc = "exited") =>
              (srv.pc = "check" /\ srv.term > 0)]_vars
    /\ [][(srv'.pc # "exited") => srv'.term >= srv.term]_vars
    /\ [][(\E c \in 1..MaxConns : Accepted(c)) =>
              (srv.pc = "accept" /\ srv'.pc = "check")]_vars
    /\ [][(srv.pc = "check" /\ srv.term > 0 /\ srv'.pc # "check") =>
              srv'.pc = "exited"]_vars
    /\ [][srv.pc = "exited" =>
              (srv'.pc = "exited" /\ \A c \in 1..MaxConns : ~Accepted(c))]_vars
\* the job of the first connection has sent Terminate for an EXIT, the
\* second connection was accepted and the acceptor has left its loop
C32_Witness ==
    /\ srv.pc = "exited"
    /\ conn[1].out = "Exit"
    /\ conn[2].st = "queued"

\* the threads that have left: by Terminate, or by a panic
Gone == {t \in 1..MaxThreads : wk[t].pc \in {"none", "exited", "dead"}}

\* C33: after the pool is dropped every worker thread, first or replacement,
\* leaves its loop; a thread that has taken Terminate does nothing more; a
\* thread is started only by the drop of a worker that unwinds from a panic,
\* one per panic, so the threads started are at most PoolSize plus the jobs
\* that panicked.
C33_WorkersExitAfterDrop ==
    /\ (~alive) ~> (Gone = 1..MaxThreads)
    /\ [][\A t \in 1..MaxThreads : wk[t].pc = "exited" =>
              (wk'[t].pc = "exited" /\ wk'[t].job = wk[t].job)]_vars
    /\ [][nthreads' # nthreads =>
              /\ nthreads' = nthreads + 1
              /\ \E t \in 1..MaxThreads : wk[t].pc = "unwinding" /\ wk'[t].pc = "dead"]_vars
    /\ [](nthreads <= PoolSize + Cardinality({j \in fin : jobs[j] = "panic"}))
\* the pool was dropped, a worker panicked and its replacement has left its
\* loop on Terminate; no thread is left
C33_Witness ==
    /\ ~alive
    /\ Gone = 1..MaxThreads
    /\ \E t \in (PoolSize + 1)..MaxThreads : wk[t].pc = "exited"

\* the engine that open leaves is the one of a directory without segment:
\* 0.log, empty, is the active segment and the only path
FreshStore ==
    /\ files = Put(EmptyMap, 0, <<>>)
    /\ active_log.path = 0 /\ ~active_log.unlinked
    /\ log_index = EmptyMap
    /\ bytes_for_compaction = 0
    /\ log_file_paths = <<0>>

\* C34: open of a directory without segment creates 0.log as the active
\* segment, with an empty index, a meter of 0 and 0.log as the only path; open
\* of a directory with segments creates no file and changes none, makes the
\* segment modified last the active one, lists the segments in the order of
\* their modification and has a reader for every segment, the active included.
C34_OpenChoosesActiveSegment ==
    /\ [](ops = 0 => FreshStore)
    /\ [][(ret'.op = "open" /\ ops' = ops + 1) =>
              IF DOMAIN files = {} THEN FreshStore'
              ELSE /\ files' = files
                   /\ active_log'.path = mtime_order[Len(mtime_order)]
                   /\ ~active_log'.unlinked
                   /\ log_file_paths' = mtime_order
                   /\ log_file_readers' = DOMAIN files]_vars
\* an open has found two segments or more and the newest is the active one
C34_Witness ==
    /\ ret.op = "open" /\ ops > 0
    /\ Cardinality(DOMAIN files) >= 2
    /\ active_log.path = mtime_order[Len(mtime_order)]
    /\ log_file_readers = DOMAIN files

\* C35: the segment of every index entry has a reader, is a member of
\* log_file_paths and is a file of the directory; get finds the reader it
\* looks up and the lock is never poisoned.
C35_IndexEntriesHaveReaders ==
    /\ \A k \in DOMAIN log_index :
           /\ log_index[k][1] \in log_file_readers
           /\ \E i \in 1..Len(log_file_paths) : log_file_paths[i] = log_index[k][1]
           /\ log_index[k][1] \in DOMAIN files
    /\ \A k \in Keys : GetIn(Cur, k) # Panic
    /\ ~poisoned

\* C36: a set or a remove that returns an I/O error leaves what get returns
\* for every key, and what get returns after the directory is opened again,
\* as they were before the call.
C36_FailedWriteChangesNothing ==
    [][(ret'.op \in {"set", "remove"} /\ ops' = ops + 1 /\ ret'.res = Io) =>
           /\ \A k \in Keys : GetIn(Cur', k) = GetIn(Cur, k)
           /\ View(Open(files', mtime_order')) = View(Open(files, mtime_order))]_vars

\* the key that handle_incoming looks up for the request req
Looked(req) == FromUtf8(Split(TrimEnd(ReadLine(req).line), COLON)[2])

\* C37: the body of the reply OK to a GET is NONE exactly when the key
\* looked up has no entry in the engine, whatever values were stored.
C37_NoneMeansAbsent ==
    [][\A c \in 1..MaxConns :
          (/\ conn[c].st = "queued" /\ conn'[c].st = "closed"
           /\ IsGet(conn[c].req) /\ conn'[c].out = "Ok") =>
              (conn'[c].body = NONE <=> Looked(conn[c].req) \notin DOMAIN log_index)]_vars

\* C38: the segment P that a compaction scans and deletes is not the active
\* segment at the call of compact, and the segment the writer appends to when
\* the operation ends is a file of the directory: the file deleted is not the
\* one that receives writes.
C38_CompactNeverTakesActive ==
    [][MutStep /\ ret'.res = Ok =>
         \A pre \in {PreCompact} :
             CompactRuns(pre) =>
                 /\ pre.active_log.path # pre.log_file_paths[1]
                 /\ ~active_log'.unlinked
                 /\ active_log'.path \in DOMAIN files']_vars

\* the bytes of the frames of recs before the last one
LenBeforeLast(recs) == IF recs = <<>> THEN 0 ELSE FileLen(SubSeq(recs, 1, Len(recs) - 1))

\* C39: every segment was at most MAX_FILE_SIZE long when its last frame was
\* appended, so it is at most MAX_FILE_SIZE plus that frame long, and every
\* index entry is the offset and size of a frame of its segment, the frames
\* lying one after the other from offset 0.
C39_SegmentSizeBounded ==
    /\ \A p \in DOMAIN files : LenBeforeLast(files[p]) <= MAX_FILE_SIZE
    /\ \A k \in DOMAIN log_index :
           \A loc \in {log_index[k]} :
               loc[1] \in DOMAIN files =>
                   /\ FrameAt(files[loc[1]], loc[2]) > 0
                   /\ loc[3] = FrameSize(files[loc[1]][FrameAt(files[loc[1]], loc[2])])
====
